---- MODULE Spec2Model ----
(***************************************************************************)
(* Model of the per-node clustering agent ClusterControlClient             *)
(* (src/src/clustering/model/cluster-control-client.cc) running under a    *)
(* discrete-event scheduler.                                               *)
(*                                                                         *)
(* Time is counted in milliseconds.  The scheduler is the ns-3 one: events *)
(* are run in order of time stamp and, for equal time stamps, in order of  *)
(* insertion.  A broadcast reaches every other node DeliveryDelay later,   *)
(* or is lost for that receiver.  Positions are in metres on the points of *)
(* the density grid.                                                       *)
(***************************************************************************)
EXTENDS Integers, Sequences, FiniteSets, TLC

\* ------------------------------------------------------------------------
\* Bounds of the model
\* ------------------------------------------------------------------------
MaxLoss == 1
MaxTime == 12000
MaxInject == 1
\* the samples and the bandwidth entries a Kde2d is constructed from
MaxSamples == 3
MaxEntry == 1

\* ------------------------------------------------------------------------
\* Program constants
\* ------------------------------------------------------------------------
\* attribute defaults (GetTypeId), in milliseconds
MinimumTdmaSlot == 1
MaxUes == 100
TimeWindow == 1000
Interval == 300
\* delays written in the code
DecideDelay == 1000
FirstStartDelay == 5000
RunningTime == 1500
RetryFactor == 1000
SlotSpacing == 50
SolverRadius == 100
\* UINT64_MAX and Time::Max(), reduced to values above every id and time
UINT64_MAX == 255
TimeMax == 1000000
\* Constants:: (header not in the sources; values of the specification)
OMNI_RANGE == 100
DISTRO_MAP_SCALE == 10
DISTRO_MAP_SIZE == 21
BF_RANGE == 100
\* cos and sin of PROPAGATION_THETA / 2 = pi/6, per mille
CosHalfTheta == 866
SinHalfTheta == 500
\* time a broadcast frame spends in the network
DeliveryDelay == 1
\* static flags: ClusterControlClient::DISABLE_STARTINGNODE (zero-initialised)
\* and Constants::REVERSE_PROPAGATION (the diagnostic mode is off)
DISABLE_STARTINGNODE == FALSE
\* the peak of one Gaussian kernel with bandwidth diag(0.1, 0.1), per mille:
\* det(H)^(-1/2) / (2 pi) = 10 / 6.2832
KernelPeak == 1591

TdmaWindow == MinimumTdmaSlot * MaxUes

\* NodeStatus and NodeDegree
CLUSTER_INITIALIZATION == "CLUSTER_INITIALIZATION"
CLUSTER_HEAD_ELECTION == "CLUSTER_HEAD_ELECTION"
CLUSTER_FORMATION == "CLUSTER_FORMATION"
CLUSTER_UPDATE == "CLUSTER_UPDATE"
EXCHANGE_DISTRO_MAP == "EXCHANGE_DISTRO_MAP"
DECIDE_PROPAGATION_PARAM == "DECIDE_PROPAGATION_PARAM"
PROPAGATION_READY == "PROPAGATION_READY"
PROPAGATION_RUNNING == "PROPAGATION_RUNNING"
PROPAGATION_COMPLETE == "PROPAGATION_COMPLETE"
STANDALONE == "STANDALONE"
CH == "CH"
CM == "CM"

VARIABLES
  scen,     \* the configuration of the run: positions, start and stop times, ...
  now,      \* Simulator::Now()
  queue,    \* the scheduler's pending events, in execution order
  node,     \* the agents' fields
  meta,     \* MetaData: the process-wide density maps and CH infos
  lossLeft, \* broadcast deliveries that may still be lost
  injLeft,  \* frames the environment may still put on the inter-CH port
  fault,    \* "none", "ub" after an undefined store, "aborted" when it killed the run
  hist,     \* observation only: what the last step did and heard, what was sent so far
  kde       \* a kdepp::Kde2d under construction: its arguments and the outcome

vars == <<scen, now, queue, node, meta, lossLeft, injLeft, fault, hist, kde>>

\* ------------------------------------------------------------------------
\* Small helpers: std::map, vectors
\* ------------------------------------------------------------------------
EmptyMap == [x \in {} |-> 0]
Upsert(m, k, v) == [x \in (DOMAIN m) \cup {k} |-> IF x = k THEN v ELSE m[x]]
Erase(m, k) == [x \in (DOMAIN m) \ {k} |-> m[x]]

Abs(x) == IF x < 0 THEN -x ELSE x
Sq(x) == x * x

RECURSIVE SqrtBetween(_, _, _)
SqrtBetween(x, lo, hi) ==
  IF lo >= hi THEN lo
  ELSE LET mid == (lo + hi + 1) \div 2
       IN IF mid * mid <= x THEN SqrtBetween(x, mid, hi)
          ELSE SqrtBetween(x, lo, mid - 1)
\* floor of the square root, for 0 <= x < 2^30
ISqrt(x) == SqrtBetween(x, 0, 32767)

\* the keys of a std::map in iteration order
RECURSIVE SortedSeq(_)
SortedSeq(S) ==
  IF S = {} THEN <<>>
  ELSE LET m == CHOOSE x \in S : \A y \in S : x <= y
       IN <<m>> \o SortedSeq(S \ {m})

FoldSeq(Op(_, _), acc, s) ==
  LET f[i \in 0..Len(s)] == IF i = 0 THEN acc ELSE Op(f[i - 1], s[i])
  IN f[Len(s)]

Nodes == DOMAIN scen.pos
Pos(n) == scen.pos[n]

\* m_currentMobility as it is copied into a header
MobilityInfo(w, n) ==
  [imsi |-> n,
   clusterId |-> w.node[n].clusterId,
   degree |-> w.node[n].degree,
   ts |-> w.node[n].ts,
   position |-> Pos(n),
   isStartingNode |-> w.node[n].isStartingNode]

\* the range check of HandleRead
OutOfRange(p, q) == Sq(p[1] - q[1]) + Sq(p[2] - q[2]) >= Sq(OMNI_RANGE)

\* ------------------------------------------------------------------------
\* The scheduler (Simulator::Schedule, Cancel, IsExpired)
\* ------------------------------------------------------------------------
NoArg == [type |-> "none"]

Event(t, n, kind, tracked, arg) ==
  [t |-> t, node |-> n, kind |-> kind, tracked |-> tracked, arg |-> arg]

\* an event runs after every event already queued for the same or an earlier time
Insert(q, e) ==
  LET k == Cardinality({i \in 1..Len(q) : q[i].t <= e.t})
  IN SubSeq(q, 1, k) \o <<e>> \o SubSeq(q, k + 1, Len(q))

Schedule(w, dt, n, kind, arg) ==
  [w EXCEPT !.queue = Insert(@, Event(w.now + dt, n, kind, FALSE, arg))]

\* Simulator::Cancel of the event an EventId member refers to
Cancel(w, n, kind) ==
  LET Keep(e) == ~(e.node = n /\ e.kind = kind)
  IN [w EXCEPT !.queue = SelectSeq(@, Keep)]

Pending(w, n, kind) ==
  \E i \in 1..Len(w.queue) : w.queue[i].node = n /\ w.queue[i].kind = kind

SetF(w, n, f, v) == [w EXCEPT !.node[n][f] = v]

\* a frame leaves the node: it is noted in the observation variable
Transmit(w, frame) ==
  [w EXCEPT !.hist.tx = Append(@, frame),
            !.hist.sent = IF frame.to = 0 THEN @ ELSE Append(@, frame)]

\* m_socket->Send and ++m_sentCounter: the frame is on its way to every other
\* node
Broadcast(w, n, headers) ==
  LET Deliver(acc, r) ==
        IF r = n THEN acc
        ELSE Schedule(acc, DeliveryDelay, r, "Rx", [type |-> "packet", from |-> n, headers |-> headers])
      sent == SetF(Transmit(w, [from |-> n, to |-> 0, headers |-> headers]),
                   n, "sentCounter", w.node[n].sentCounter + 1)
  IN FoldSeq(Deliver, sent, SortedSeq(Nodes))

AcquireMobilityInfo(w, n) == SetF(w, n, "ts", w.now)

ScheduleTransmit(w, n, dt) ==
  IF Pending(w, n, "Send") THEN w ELSE Schedule(w, dt, n, "Send", NoArg)

\* ------------------------------------------------------------------------
\* HandleRead: the beacon headers
\* ------------------------------------------------------------------------
MergeCheck(w, n) ==
  LET nl == w.node[n].neighborList
      chs == {k \in DOMAIN nl : nl[k].degree = CH}
  IN IF chs = {} THEN UINT64_MAX ELSE CHOOSE k \in chs : \A j \in chs : j <= k

\* the election turned upside down: the lowest id wins
HasMinId(w, n) ==
  LET nl == w.node[n].neighborList
  IN \A k \in DOMAIN nl : ~(nl[k].imsi < n /\ nl[k].degree # CM)

HasMaxId(w, n) ==
  LET nl == w.node[n].neighborList
  IN \A k \in DOMAIN nl : ~(nl[k].imsi > n /\ nl[k].degree # CM)

\* the sender's cluster is noted even when it is the node's own
NoteAnyCluster(w, n, o) ==
  IF o.degree \in {CH, CM}
  THEN SetF(w, n, "neighborClusterList",
            Upsert(w.node[n].neighborClusterList, o.clusterId,
                   [imsi |-> o.clusterId, clusterId |-> o.clusterId, degree |-> CH,
                    ts |-> w.now, position |-> o.position, isStartingNode |-> FALSE]))
  ELSE w

\* "Update NeighborClusterList" at the end of the ClusterInfo and
\* InitiateCluster branches
NoteNeighborCluster(w, n, o) ==
  IF w.node[n].clusterId # o.clusterId /\ o.degree \in {CH, CM}
  THEN SetF(w, n, "neighborClusterList",
            Upsert(w.node[n].neighborClusterList, o.clusterId,
                   [imsi |-> o.clusterId, clusterId |-> o.clusterId, degree |-> CH,
                    ts |-> w.now, position |-> o.position, isStartingNode |-> FALSE]))
  ELSE w

\* the node does not answer the head
KeepWaiting(w, n, cid) == w

BecomeMember(w, n, cid) ==
  ScheduleTransmit(
    SetF(SetF(SetF(w, n, "status", CLUSTER_UPDATE), n, "degree", CM), n, "clusterId", cid),
    n, TimeWindow)

\* a head joins any other head it knows, in either direction of the ids, and
\* stays a head
MergeIntoAnyHead(w, n, potentialCH) ==
  LET s == w.node[n]
  IN IF s.clusterList = EmptyMap /\ potentialCH \in DOMAIN s.neighborList
     THEN SetF(w, n, "clusterId", s.neighborList[potentialCH].imsi)
     ELSE w

\* the merge check without the look at the ClusterList
MergeWithMembers(w, n, potentialCH) ==
  LET s == w.node[n]
  IN IF potentialCH \in DOMAIN s.neighborList /\ potentialCH # UINT64_MAX
        /\ n < s.neighborList[potentialCH].imsi
     THEN SetF(SetF(w, n, "degree", CM), n, "clusterId", s.neighborList[potentialCH].imsi)
     ELSE w

\* "Merge Check": a node without members joins the head of the highest id
MergeInto(w, n, potentialCH) ==
  LET s == w.node[n]
  IN IF s.clusterList = EmptyMap
        /\ potentialCH \in DOMAIN s.neighborList /\ potentialCH # UINT64_MAX
        /\ n < s.neighborList[potentialCH].imsi
     THEN SetF(SetF(w, n, "degree", CM), n, "clusterId", s.neighborList[potentialCH].imsi)
     ELSE w

\* the node that becomes a head on a beacon keeps the clusterId it had
BecomeHeadOnly(w, n, o) ==
  LET s == w.node[n]
      potentialCH == MergeCheck(w, n)
      known == potentialCH \in DOMAIN s.neighborList /\ potentialCH # UINT64_MAX
  IN IF s.degree \in {CH, CM}
     THEN IF o.clusterId = n
          THEN SetF(w, n, "clusterList", Upsert(s.clusterList, o.imsi, o))
          ELSE MergeInto(w, n, potentialCH)
     ELSE IF known
          THEN SetF(SetF(w, n, "degree", CM), n, "clusterId",
                    s.neighborList[potentialCH].imsi)
          ELSE Schedule(SetF(w, n, "degree", CH), 0, n, "UpdateNeighbors", NoArg)

\* "ClusterInfoHeader @ CLUSTER_UPDATE"
ClusterInfoAtUpdate(w, n, o) ==
  LET s == w.node[n]
      potentialCH == MergeCheck(w, n)
      known == potentialCH \in DOMAIN s.neighborList /\ potentialCH # UINT64_MAX
  IN IF s.degree \in {CH, CM}
     THEN IF o.clusterId = n
          THEN SetF(w, n, "clusterList", Upsert(s.clusterList, o.imsi, o))
          ELSE MergeInto(w, n, potentialCH)
     ELSE IF known
          THEN SetF(SetF(w, n, "degree", CM), n, "clusterId",
                    s.neighborList[potentialCH].imsi)
          ELSE Schedule(SetF(SetF(w, n, "degree", CH), n, "clusterId", n),
                        0, n, "UpdateNeighbors", NoArg)

HandleClusterInfo(w, n, o) ==
  IF OutOfRange(Pos(n), o.position) THEN w
  ELSE
    LET w1 == SetF(w, n, "neighborList", Upsert(w.node[n].neighborList, o.imsi, o))
        w2 == IF w1.node[n].status = CLUSTER_INITIALIZATION
                 /\ o.degree = CH /\ w1.node[n].degree = STANDALONE
              THEN BecomeMember(w1, n, o.clusterId)
              ELSE w1
        w3 == IF w2.node[n].status \in {CLUSTER_UPDATE, CLUSTER_HEAD_ELECTION}
              THEN ClusterInfoAtUpdate(w2, n, o)
              ELSE w2
    IN NoteNeighborCluster(w3, n, o)

HandleInitiateCluster(w, n, cid, o) ==
  IF w.node[n].status = CLUSTER_INITIALIZATION
  THEN IF OutOfRange(Pos(n), o.position)
       THEN SetF(w, n, "status", CLUSTER_HEAD_ELECTION)
       ELSE IF cid \in DOMAIN w.node[n].neighborList
            THEN NoteNeighborCluster(
                   BecomeMember(
                     SetF(w, n, "neighborList", Upsert(w.node[n].neighborList, cid, o)),
                     n, o.clusterId),
                   n, o)
            ELSE NoteNeighborCluster(w, n, o)
  ELSE NoteNeighborCluster(w, n, o)

HandleNeighborClusterInfo(w, n, cid, o) ==
  IF w.node[n].degree = CH /\ cid = n /\ o.imsi # n
  THEN SetF(w, n, "neighborClusterList", Upsert(w.node[n].neighborClusterList, o.imsi, o))
  ELSE w

\* ------------------------------------------------------------------------
\* Timers of the formation phase
\* ------------------------------------------------------------------------
StartClustering(w, n) ==
  Schedule(AcquireMobilityInfo(ScheduleTransmit(w, n, TimeWindow), n),
           TdmaWindow, n, "UpdateNeighborList", NoArg)

\* the node enters CLUSTER_UPDATE and schedules no beacon
EnterUpdateOnly(w, n) == SetF(w, n, "status", CLUSTER_UPDATE)

UpdateNeighbors(w, n) ==
  ScheduleTransmit(SetF(w, n, "status", CLUSTER_UPDATE), n, Interval)

InitiateCluster(w, n) ==
  IF w.node[n].status = CLUSTER_INITIALIZATION
  THEN IF w.node[n].clusterId = 1 \/ w.node[n].clusterId = 2
       THEN ScheduleTransmit(SetF(w, n, "status", CLUSTER_UPDATE), n, Interval)
       ELSE IF HasMaxId(w, n)
            THEN ScheduleTransmit(SetF(w, n, "status", CLUSTER_HEAD_ELECTION), n, TdmaWindow)
            ELSE Schedule(w, TdmaWindow, n, "InitiateCluster", NoArg)
  ELSE w

\* the headers of one beacon of Send @ CLUSTER_UPDATE, in the order the
\* receiver's item iterator meets them: AddHeader prepends
UpdateHeaders(w, n) ==
  LET ncl == w.node[n].neighborClusterList
      keys == SortedSeq(DOMAIN ncl)
      Nci(acc, k) == <<[type |-> "NeighborClusterInfo",
                        clusterId |-> w.node[n].clusterId, info |-> ncl[k]]>> \o acc
  IN FoldSeq(Nci, <<[type |-> "ClusterInfo", info |-> MobilityInfo(w, n)]>>, keys)

Send(w, n) ==
  LET st == w.node[n].status
      a == AcquireMobilityInfo(w, n)
      ch == SetF(SetF(a, n, "degree", CH), n, "clusterId", n)
  IN CASE st = CLUSTER_INITIALIZATION ->
            Schedule(Broadcast(a, n, <<[type |-> "ClusterInfo", info |-> MobilityInfo(a, n)]>>),
                     TdmaWindow, n, "InitiateCluster", NoArg)
       [] st = CLUSTER_HEAD_ELECTION ->
            ScheduleTransmit(
              SetF(Broadcast(ch, n, <<[type |-> "InitiateCluster", clusterId |-> n,
                                       info |-> MobilityInfo(ch, n)]>>),
                   n, "status", CLUSTER_UPDATE),
              n, TdmaWindow)
       [] st = CLUSTER_FORMATION ->
            Schedule(Broadcast(ch, n, <<[type |-> "FormCluster", info |-> MobilityInfo(ch, n)]>>),
                     0, n, "UpdateNeighbors", NoArg)
       [] st = CLUSTER_UPDATE ->
            ScheduleTransmit(Broadcast(a, n, UpdateHeaders(a, n)), n, Interval)
       [] st = DECIDE_PROPAGATION_PARAM ->
            IF w.node[n].degree = CH
            THEN ScheduleTransmit(
                   Broadcast([w EXCEPT !.hist.intra = @ \cup {n}], n,
                             <<[type |-> "IntraClusterPropagation",
                               clusterId |-> w.node[n].clusterId,
                               startingNode |-> w.node[n].firstStartNode,
                               startingTime |-> w.node[n].firstStart,
                               direction |-> w.node[n].propDir]>>),
                   n, Interval)
            ELSE w
       [] st = PROPAGATION_RUNNING ->
            ScheduleTransmit(
              Broadcast(w, n, <<[type |-> "InterNodePropagation",
                                 clusterId |-> n,
                                 startingTime |-> w.node[n].propStart,
                                 position |-> Pos(n),
                                 direction |-> w.node[n].propDir]>>),
              n, Interval)
       [] OTHER -> w

\* the timestamp check of UpdateNeighborList: the ages are compared as
\* doubles, and an age of exactly 2 * Interval falls on either side (tie)
\* the limit moved to three intervals
TooOldAtThree(w, ts, tie) ==
  w.now - ts > 3 * Interval

TooOld(w, ts, tie) ==
  \/ w.now - ts > 2 * Interval
  \/ w.now - ts = 2 * Interval /\ tie

\* one round of the loop over m_neighborList
AgeNeighbor(acc, key, n, tie) ==
  LET s == acc.w.node[n]
      value == s.neighborList[key]
      hasCH == acc.hasCH \/ (s.clusterId = value.imsi /\ s.clusterId = value.clusterId
                             /\ value.degree = CH)
      \* "Remove Old CM" and "Update Neighbor Cluster List"
      Tables(w) ==
        [w EXCEPT !.node[n].clusterList =
                     IF key \in DOMAIN @ /\ n # value.clusterId THEN Erase(@, key) ELSE @,
                  !.node[n].neighborClusterList =
                     IF value.degree = CH /\ s.clusterId # value.imsi
                     THEN IF key \notin DOMAIN @ THEN Upsert(@, value.imsi, value) ELSE @
                     ELSE Erase(@, key)]
      \* the entry is too old; "Lost CH", "Lost Neighbor", "Lost CM"
      Evict(w) ==
        [w EXCEPT !.node[n].neighborList = Erase(@, key),
                  !.node[n].clusterList = Erase(@, key),
                  !.node[n].clusterId = IF value.imsi = s.clusterId THEN 0 ELSE @,
                  !.node[n].degree = IF value.imsi = s.clusterId THEN STANDALONE ELSE @,
                  !.node[n].status = IF value.imsi = s.clusterId
                                     THEN CLUSTER_INITIALIZATION ELSE @]
      \* "become CH"
      Promote(w) ==
        IF w.node[n].neighborList = EmptyMap /\ w.node[n].degree # CH
        THEN ScheduleTransmit([w EXCEPT !.node[n].degree = CH, !.node[n].clusterId = n], n, 0)
        ELSE w
  IN [w |-> IF TooOld(acc.w, value.ts, tie) THEN Promote(Evict(Tables(acc.w)))
            ELSE Tables(acc.w),
      hasCH |-> hasCH]

\* a member never notices that its head is gone
LostNothing(w, n, hasCH) == FALSE

\* "CM && !hasCH": the member has no entry of its head any more
LostCH(w, n, hasCH) == w.node[n].degree = CM /\ ~hasCH

UpdateNeighborList(w, n, tie) ==
  LET Round(acc, key) == AgeNeighbor(acc, key, n, tie)
      Aged(a) == FoldSeq(Round, [w |-> a, hasCH |-> FALSE],
                         SortedSeq(DOMAIN a.node[n].neighborList))
      End(r) ==
        LET lost == LostCH(r.w, n, r.hasCH)
        IN Schedule(
             [r.w EXCEPT !.node[n].clusterId = IF lost THEN UINT64_MAX ELSE @,
                         !.node[n].degree = IF lost THEN STANDALONE ELSE @,
                         !.node[n].neighborClusterList =
                            [k \in {j \in DOMAIN @ : ~TooOld(r.w, @[j].ts, tie)} |-> @[k]]],
             Interval, n, "UpdateNeighborList", NoArg)
  IN End(Aged(AcquireMobilityInfo(w, n)))

\* ------------------------------------------------------------------------
\* Vectors.  Positions are whole metres; velocities are in cm/s.
\* ------------------------------------------------------------------------
DivT(a, b) == IF a >= 0 THEN a \div b ELSE -((-a) \div b)

Vec(x, y) == [x |-> x, y |-> y, nan |-> FALSE]
ZeroVec == Vec(0, 0)
NaNVec == [x |-> 0, y |-> 0, nan |-> TRUE]
VAdd(a, b) == IF a.nan \/ b.nan THEN NaNVec ELSE Vec(a.x + b.x, a.y + b.y)
Norm(v) == ISqrt(Sq(v.x) + Sq(v.y))
\* the Euclidean distance of two positions, in cm
DistCm(p, q) == ISqrt((Sq(p[1] - q[1]) + Sq(p[2] - q[2])) * 10000)

IsInSector(source, destination, direction, radius) ==
  LET deltaX == destination[1] - source[1]
      deltaY == destination[2] - source[2]
      \* dx and dy of the code, times absol
      hx == direction.x * deltaX + direction.y * deltaY
      hy == (-direction.y) * deltaX + direction.x * deltaY
  IN IF Sq(deltaX) + Sq(deltaY) > Sq(radius) THEN FALSE
     ELSE IF direction.nan THEN TRUE
     ELSE IF CosHalfTheta * hy + SinHalfTheta * hx < 0 THEN FALSE
     ELSE IF CosHalfTheta * hy - SinHalfTheta * hx > 0 THEN FALSE
     ELSE TRUE

\* CalcPropagationDelay, in ms.  With a zero or NaN direction the quotient is
\* not a number and its conversion to Time is undefined: u is what comes out.
CalcPropagationDelay(source, destination, direction, u) ==
  LET verocity == (Sq(direction.x) + Sq(direction.y)) \div 100
      h == direction.x * (destination[1] - source[1])
           + direction.y * (destination[2] - source[2])
  IN IF direction.nan \/ verocity = 0 THEN u
     ELSE (Abs(h) * 1000) \div verocity

FindNodeByPosition(w, n, pos) ==
  LET cl == w.node[n].clusterList
      D(p) == Sq(pos[1] - p[1]) + Sq(pos[2] - p[2])
      Closer(acc, k) == IF acc.distance > D(cl[k].position)
                        THEN [id |-> k, distance |-> D(cl[k].position)] ELSE acc
  IN FoldSeq(Closer, [id |-> n, distance |-> D(Pos(n))], SortedSeq(DOMAIN cl)).id

\* ------------------------------------------------------------------------
\* The density map
\* ------------------------------------------------------------------------
\* the cells of the grid, as offsets from the centre cell
CellRange == (0 - DISTRO_MAP_SIZE \div 2)..(DISTRO_MAP_SIZE - 1 - DISTRO_MAP_SIZE \div 2)

\* Kde2d::invert: the adjugate over the determinant, or the exception
Determinant(h) == h[1] * h[4] - h[2] * h[3]

invert(h) ==
  IF Determinant(h) = 0 THEN [built |-> "runtime_error", what |-> "Singular data matrix"]
  ELSE [built |-> "yes", num |-> <<h[4], 0 - h[2], 0 - h[3], h[1]>>, den |-> Determinant(h)]

\* std::pow(determinant, -1.0/2.0) is never taken for a number
PowNeverNaN(determinant) == FALSE

\* std::isnan(std::pow(determinant, -1.0/2.0)): the power of a negative base
\* to a non-integer exponent
PowIsNaN(determinant) == determinant < 0

pre_calculate_terms(h, made) ==
  IF PowIsNaN(Determinant(h)) THEN [built |-> "runtime_error", what |-> "Math domain error"]
  ELSE made

\* Kde2d::Kde2d(data, bandwidth): set_bandwidth inverts the matrix and
\* precalculates the terms, which the constructor then does once more
Kde2d(data, bandwidth) ==
  IF Len(data) < 2 THEN [built |-> "invalid_argument", what |-> "Only one data point"]
  ELSE IF invert(bandwidth).built # "yes" THEN invert(bandwidth)
  ELSE pre_calculate_terms(bandwidth, pre_calculate_terms(bandwidth, invert(bandwidth)))

\* Kde2d::eval on the grid, per mille.  The samples lie on grid points; a
\* kernel of bandwidth 0.1 is KernelPeak on its own sample and underflows
\* to 0 one cell (DISTRO_MAP_SCALE metres) away.  Only the non-zero cells
\* are kept.
KdeGrid(samples) ==
  LET Count(c) == Cardinality({i \in 1..Len(samples) :
                     samples[i] = <<c[1] * DISTRO_MAP_SCALE, c[2] * DISTRO_MAP_SCALE>>})
      hit == {c \in CellRange \X CellRange : Count(c) > 0}
  IN [c \in hit |-> KernelPeak * Count(c)]

UpdateDistroMap(w, n) ==
  LET cl == w.node[n].clusterList
      keys == SortedSeq(DOMAIN cl)
      data == <<<<0, 0>>>> \o
              [i \in 1..Len(keys) |-> <<cl[keys[i]].position[1] - Pos(n)[1],
                                        cl[keys[i]].position[2] - Pos(n)[2]>>]
      map == IF Len(data) > 1 THEN KdeGrid(data) ELSE [c \in {<<0, 0>>} |-> 1000]
      w1 == SetF(w, n, "distroMap", map)
  IN [w1 EXCEPT !.meta.distroMap = Upsert(@, n, map),
                !.meta.chInfo = Upsert(@, n, MobilityInfo(w, n))]

ConnectSocketInterCH(w, n) ==
  SetF(w, n, "socket", w.node[n].socket \cup DOMAIN w.node[n].neighborClusterList)

\* ExchangeDistroMap: the frame is built for every channel, and the line
\* that schedules its SendTo is commented out
ExchangeDistroMap(w, n) ==
  LET s == w.node[n]
  IN SetF(SetF(SetF(w, n, "status", EXCHANGE_DISTRO_MAP), n, "ackDistroMap",
               [k \in (DOMAIN s.ackDistroMap) \cup s.socket |->
                  IF k \in s.socket THEN FALSE ELSE s.ackDistroMap[k]]),
          n, "sentCounter", s.sentCounter + Cardinality(s.socket))

\* the start event is installed without a look at the one installed before
InstallStart(w, n) ==
  Schedule(w, w.node[n].propStart - w.now, n, "StartNodePropagation", NoArg)

\* m_interNodePropagationEvent is cancelled and assigned the new event
ReinstallStart(w, n) ==
  Schedule(Cancel(w, n, "StartNodePropagation"),
           w.node[n].propStart - w.now, n, "StartNodePropagation", NoArg)

ScheduleInterNodePropagation(w, n) ==
  LET w1 == SetF(w, n, "status", PROPAGATION_READY)
  IN IF w.now > w.node[n].propStart THEN w1
     ELSE ReinstallStart(w1, n)

StartNodePropagation(w, n) ==
  Schedule(Send(SetF(w, n, "status", PROPAGATION_RUNNING), n),
           RunningTime, n, "StopNodePropagation", NoArg)

StopNodePropagation(w, n) == SetF(w, n, "status", PROPAGATION_COMPLETE)

\* ------------------------------------------------------------------------
\* The direction solver
\* ------------------------------------------------------------------------
ScheduleTracked(w, dt, n, kind, arg) ==
  [w EXCEPT !.queue = Insert(@, Event(w.now + dt, n, kind, TRUE, arg))]

\* m_sendingInterClusterPropagationEvent: Cancel of every event in it that
\* is still running
CancelSendingEvents(w, n) ==
  LET Keep(e) == ~(e.node = n /\ e.tracked)
  IN [w EXCEPT !.queue = SelectSeq(@, Keep)]

\* push_back(m_sendEvent)
TrackSendEvent(w, n) ==
  [w EXCEPT !.queue = [i \in 1..Len(@) |->
      IF @[i].node = n /\ @[i].kind = "Send" THEN [@[i] EXCEPT !.tracked = TRUE] ELSE @[i]]]

\* the cells of one neighbour map the wave can be sent to: those above 1.0
\* inside the forward sector
CellPos(c, basePosition) ==
  <<c[1] * DISTRO_MAP_SCALE + basePosition[1], c[2] * DISTRO_MAP_SCALE + basePosition[2]>>

\* the cells at 1.0 count as well
CandidatesFromOne(map, basePosition, startingPosition, income) ==
  {c \in DOMAIN map :
     /\ map[c] >= 1000
     /\ IsInSector(startingPosition, CellPos(c, basePosition), income, SolverRadius)}

Candidates(map, basePosition, startingPosition, income) ==
  {c \in DOMAIN map :
     /\ map[c] > 1000
     /\ IsInSector(startingPosition, CellPos(c, basePosition), income, SolverRadius)}

\* the farthest of them from the starting position
FarthestCell(cands, basePosition, startingPosition) ==
  LET D(c) == Sq(CellPos(c, basePosition)[1] - startingPosition[1])
              + Sq(CellPos(c, basePosition)[2] - startingPosition[2])
      Before(c, d) == c[2] < d[2] \/ (c[2] = d[2] /\ c[1] <= d[1])
  IN CHOOSE c \in cands :
       \A d \in cands : D(c) > D(d) \/ (D(c) = D(d) /\ Before(c, d))

\* the nearest of them to the starting position, the first in index order
\* among equally near ones
NearestCell(cands, basePosition, startingPosition) ==
  LET D(c) == Sq(CellPos(c, basePosition)[1] - startingPosition[1])
              + Sq(CellPos(c, basePosition)[2] - startingPosition[2])
      Before(c, d) == c[2] < d[2] \/ (c[2] = d[2] /\ c[1] <= d[1])
  IN CHOOSE c \in cands :
       \A d \in cands : D(c) < D(d) \/ (D(c) = D(d) /\ Before(c, d))

\* candidate_outcome: the incoming speed along the line to the candidate
Outcome(income, startingPosition, candidate_pos) ==
  LET Scaled(income_velocity, distance) ==
        IF income.nan \/ distance = 0 THEN NaNVec
        ELSE Vec(DivT(income_velocity * (candidate_pos[1] - startingPosition[1]) * 100, distance),
                 DivT(income_velocity * (candidate_pos[2] - startingPosition[2]) * 100, distance))
  IN Scaled(Norm(income), DistCm(candidate_pos, startingPosition))

\* "Sending packet Next Cluster"
SendCandidate(acc, key, n, startingPosition, candidate_pos, candidate_outcome) ==
  LET s == acc.w.node[n]
      packet == [type |-> "InterClusterPropagation",
                 seq |-> s.sentCounter,
                 clusterId |-> s.clusterId,
                 startingTime |-> s.firstStart,
                 source |-> startingPosition,
                 destination |-> candidate_pos,
                 direction |-> candidate_outcome]
  IN [w |-> ScheduleTracked(
              [acc.w EXCEPT !.node[n].sentCounter = @ + 1,
                            !.node[n].ackICP = Upsert(@, key, FALSE)],
              acc.slot, n, "SendTo",
              [type |-> "sendto", id |-> key, packet |-> packet, ack |-> "icp"]),
      slot |-> acc.slot + MinimumTdmaSlot * SlotSpacing,
      sum |-> VAdd(acc.sum, candidate_outcome)]

\* one round of the loop over m_neighborDistroMap
SolveOne(acc, key, n, startingPosition, income) ==
  LET ncl == acc.w.node[n].neighborClusterList
      basePosition == IF key \in DOMAIN ncl THEN ncl[key].position ELSE <<0, 0>>
      Aim(cands) ==
        LET To(candidate_pos) ==
              SendCandidate(acc, key, n, startingPosition, candidate_pos,
                            Outcome(income, startingPosition, candidate_pos))
        IN IF cands = {} THEN acc
           ELSE To(CellPos(NearestCell(cands, basePosition, startingPosition), basePosition))
  IN Aim(Candidates(acc.w.node[n].neighborDistroMap[key], basePosition, startingPosition, income))

\* m_propagationDirection = Vector(...)
SetLocalDirection(w, n, v) == SetF(w, n, "propDir", v)

\* the end of TransmitPropagationDirection: the local direction, the
\* intra-cluster announcement and the CH's own wave
SolverEnd(r, n, id, propVector) ==
  LET \* observation: a head with members owes them an announcement
      Solved(w) ==
        IF w.node[n].degree = CH
        THEN [w EXCEPT !.hist.solved = @ \cup {n}, !.hist.intra = @ \ {n}]
        ELSE w
      OwnWave(w) ==
        IF id = n /\ (~DISABLE_STARTINGNODE \/ w.node[n].isStartingNode)
        THEN ScheduleInterNodePropagation(
               [w EXCEPT !.node[n].propStart = w.node[n].firstStart], n)
        ELSE w
      Announce(w) ==
        IF w.node[n].clusterList # EmptyMap
        THEN TrackSendEvent(ScheduleTransmit(Solved(w), n, r.slot), n)
        ELSE w
      Direct(abs) ==
        IF propVector.nan \/ r.sum.nan \/ abs = 0 THEN NaNVec
        ELSE Vec(DivT(Norm(propVector) * r.sum.x, abs), DivT(Norm(propVector) * r.sum.y, abs))
      \* observation: the solver ran at n and aimed at so many neighbours
      Noted(w) ==
        [w EXCEPT !.hist.solver =
           [type |-> "solver", node |-> n,
            targeted |-> (r.slot - TdmaWindow) \div (MinimumTdmaSlot * SlotSpacing),
            from |-> IF id \in DOMAIN r.w.node[n].clusterList
                     THEN r.w.node[n].clusterList[id].position ELSE Pos(n),
            income |-> propVector]]
  IN OwnWave(Announce(Noted(SetLocalDirection(r.w, n, Direct(Norm(r.sum))))))

TransmitPropagationDirection(w, n, id, propVector) ==
  LET From(w0) ==
        LET cl == w0.node[n].clusterList
            startingPosition == IF id \in DOMAIN cl THEN cl[id].position ELSE Pos(n)
            One(acc, key) == SolveOne(acc, key, n, startingPosition, propVector)
        IN IF id \in DOMAIN cl \/ id = n
           THEN SolverEnd(FoldSeq(One, [w |-> w0, slot |-> TdmaWindow, sum |-> ZeroVec],
                                  SortedSeq(DOMAIN w0.node[n].neighborDistroMap)),
                          n, id, propVector)
           ELSE w0
  IN From(CancelSendingEvents(w, n))

\* the id of the starting node of the cluster, UINT64_MAX when it has none
StartingNodeOf(w, n) ==
  LET cl == w.node[n].clusterList
      marked == {k \in DOMAIN cl : cl[k].isStartingNode}
  IN IF w.node[n].isStartingNode THEN n
     ELSE IF marked = {} THEN UINT64_MAX
     ELSE CHOOSE k \in marked : \A j \in marked : j <= k

\* "complete distro map": what the peers did not send is read from MetaData
CompleteDistroMap(w, n) ==
  LET One(acc, id) ==
        IF id \in DOMAIN acc.node[n].neighborDistroMap THEN acc
        ELSE [acc EXCEPT
                !.node[n].neighborDistroMap =
                   IF id \in DOMAIN acc.meta.distroMap
                   THEN Upsert(@, id, acc.meta.distroMap[id]) ELSE @,
                !.node[n].neighborClusterList =
                   IF id \in DOMAIN acc.meta.chInfo
                   THEN Upsert(@, id, acc.meta.chInfo[id]) ELSE @]
  IN FoldSeq(One, w, SortedSeq(DOMAIN w.node[n].neighborClusterList))

\* the retries of the density exchange are left running
LeaveRetries(w, n) == w

\* every entry of m_ackDistroMap is set: the retries of the exchange stop
StopRetries(w, n) ==
  [w EXCEPT !.node[n].ackDistroMap = [k \in DOMAIN @ |-> TRUE]]

DecidePropagationParam(w, n) ==
  LET Start(w2, startingNodeId) ==
        IF startingNodeId # UINT64_MAX /\ startingNodeId \in DOMAIN scen.baseVec
        THEN TransmitPropagationDirection(
               [w2 EXCEPT !.node[n].firstStart = w2.now + FirstStartDelay,
                          !.node[n].firstStartNode = startingNodeId],
               n, startingNodeId, scen.baseVec[startingNodeId])
        ELSE w2
  IN Start(CompleteDistroMap(
             StopRetries([w EXCEPT !.node[n].status = DECIDE_PROPAGATION_PARAM], n), n),
           StartingNodeOf(w, n))

\* the aging tick is left running
StopWithoutCancel(w, n) ==
  LET Stopped(w1) ==
        IF w1.node[n].degree = CH
        THEN Schedule(ExchangeDistroMap(UpdateDistroMap(ConnectSocketInterCH(w1, n), n), n),
                      DecideDelay, n, "DecidePropagationParam", NoArg)
        ELSE IF w1.node[n].degree = STANDALONE /\ w1.node[n].isStartingNode
             THEN ScheduleInterNodePropagation(
                    [w1 EXCEPT !.node[n].firstStart = w1.now + FirstStartDelay,
                               !.node[n].propStart = w1.now + FirstStartDelay,
                               !.node[n].propDir = scen.basePropagationDirection[n]],
                    n)
             ELSE w1
  IN Stopped(SetF(AcquireMobilityInfo(w, n), n, "status", EXCHANGE_DISTRO_MAP))

StopClustering(w, n) ==
  LET Stopped(w1) ==
        IF w1.node[n].degree = CH
        THEN Schedule(ExchangeDistroMap(UpdateDistroMap(ConnectSocketInterCH(w1, n), n), n),
                      DecideDelay, n, "DecidePropagationParam", NoArg)
        ELSE IF w1.node[n].degree = STANDALONE /\ w1.node[n].isStartingNode
             THEN ScheduleInterNodePropagation(
                    [w1 EXCEPT !.node[n].firstStart = w1.now + FirstStartDelay,
                               !.node[n].propStart = w1.now + FirstStartDelay,
                               !.node[n].propDir = scen.basePropagationDirection[n]],
                    n)
             ELSE w1
  IN Stopped(SetF(AcquireMobilityInfo(Cancel(w, n, "UpdateNeighborList"), n),
                  n, "status", EXCHANGE_DISTRO_MAP))

\* ------------------------------------------------------------------------
\* HandleRead: the propagation headers
\* ------------------------------------------------------------------------
HandleFormCluster(w, n, o) ==
  IF OutOfRange(Pos(n), o.position) THEN w
  ELSE LET w1 == SetF(w, n, "neighborList", Upsert(w.node[n].neighborList, o.imsi, o))
       IN IF o.clusterId \in DOMAIN w1.node[n].neighborList
             /\ w1.node[n].status = CLUSTER_HEAD_ELECTION
          THEN BecomeMember(w1, n, o.clusterId)
          ELSE w1

HandleIntraClusterPropagation(w, n, h) ==
  LET s == w.node[n]
      w1 == SetF(w, n, "propDir", h.direction)
      w2 == IF s.propStart >= h.startingTime /\ h.startingTime > w.now
            THEN SetF(SetF(w1, n, "propStart", h.startingTime), n, "firstStart", h.startingTime)
            ELSE w1
  IN IF s.clusterId = h.clusterId /\ s.degree = CM
     THEN IF n = h.startingNode
             /\ (~DISABLE_STARTINGNODE \/ s.isStartingNode)
             /\ s.status \in {EXCHANGE_DISTRO_MAP, PROPAGATION_READY}
          THEN ScheduleInterNodePropagation(w2, n)
          ELSE w1
     ELSE w

\* the "alternate direction" of a node whose own direction is (0, 0)
AlternateDirection(n, h) ==
  LET speed == Norm(h.direction)
      delta_abs == DistCm(Pos(n), h.position)
      out == Vec(DivT(h.direction.x * 1000, speed)
                   + DivT((Pos(n)[1] - h.position[1]) * 100000, delta_abs),
                 DivT(h.direction.y * 1000, speed)
                   + DivT((Pos(n)[2] - h.position[2]) * 100000, delta_abs))
      out_abs == Norm(out)
  IN IF h.direction.nan \/ speed = 0 \/ delta_abs = 0 THEN NaNVec
     ELSE IF out_abs = 0 THEN NaNVec
     ELSE Vec(DivT(speed * out.x, out_abs), DivT(speed * out.y, out_abs))

HandleInterNodePropagation(w, n, h, u) ==
  LET s == w.node[n]
      dir == IF ~s.propDir.nan /\ s.propDir.x = 0 /\ s.propDir.y = 0
             THEN AlternateDirection(n, h) ELSE s.propDir
      w1 == SetF(w, n, "propDir", dir)
      velocity == Norm(dir)
      \* distance / velocity is not a number for a NaN direction
      delay == IF dir.nan \/ velocity = 0 THEN u
               ELSE (DistCm(h.position, Pos(n)) * 1000) \div velocity
      newTime == h.startingTime + delay
  IN IF IsInSector(h.position, Pos(n), h.direction, BF_RANGE)
     THEN IF newTime < s.propStart /\ w.now < s.propStart
          THEN ScheduleInterNodePropagation(SetF(w1, n, "propStart", newTime), n)
          ELSE w1
     ELSE w

HandleHeader(w, n, h, u) ==
  CASE h.type = "ClusterInfo" -> HandleClusterInfo(w, n, h.info)
    [] h.type = "InitiateCluster" -> HandleInitiateCluster(w, n, h.clusterId, h.info)
    [] h.type = "FormCluster" -> HandleFormCluster(w, n, h.info)
    [] h.type = "NeighborClusterInfo" -> HandleNeighborClusterInfo(w, n, h.clusterId, h.info)
    [] h.type = "IntraClusterPropagation" -> HandleIntraClusterPropagation(w, n, h)
    [] h.type = "InterNodePropagation" -> HandleInterNodePropagation(w, n, h, u)
    [] OTHER -> w

\* the loop over the headers of one packet
HandleRead(w, n, headers, u) ==
  LET One(acc, h) == HandleHeader(acc, n, h, u)
  IN FoldSeq(One, w, headers)

\* ------------------------------------------------------------------------
\* The inter-CH channel
\* ------------------------------------------------------------------------
\* the Ack leaves without the cluster of its sender: SetClusterId is not
\* called and the field keeps its initial 0
AckUnnamed(w, n, of) ==
  [type |-> "Ack", seq |-> w.node[n].sentCounter, ackType |-> of, clusterId |-> 0]

AckFrame(w, n, of) ==
  [type |-> "Ack", seq |-> w.node[n].sentCounter, ackType |-> of,
   clusterId |-> w.node[n].clusterId]

\* Schedule(Seconds(.0), SendTo, id, packet, 0) of a new Ack, ++m_sentCounter
ReturnAck(w, n, id, of) ==
  LET Reply(w1) ==
        Schedule([w1 EXCEPT !.node[n].sentCounter = @ + 1], 0, n, "SendTo",
                 [type |-> "sendto", id |-> id, packet |-> AckFrame(w1, n, of), ack |-> "none"])
  IN Reply(w)

\* the received map is added, cell by cell, to the one already held
AddDistroMap(m, id, map) ==
  IF id \in DOMAIN m
  THEN Upsert(m, id, [c \in (DOMAIN m[id]) \cup (DOMAIN map) |->
                       (IF c \in DOMAIN m[id] THEN m[id][c] ELSE 0)
                       + (IF c \in DOMAIN map THEN map[c] ELSE 0)])
  ELSE Upsert(m, id, map)

\* insert under a new key, itND->second = otherDistroMapV under a known one
StoreDistroMap(m, id, map) == Upsert(m, id, map)

HandleDistroMap(w, n, h) ==
  ReturnAck([w EXCEPT !.node[n].neighborClusterList = Upsert(@, h.clusterId, h.info),
                      !.node[n].neighborDistroMap = StoreDistroMap(@, h.clusterId, h.map),
                      !.hist.rxDistro = Append(@, [at |-> n, from |-> h.clusterId,
                                                   frame |-> h])],
            n, h.clusterId, "DistroMap")

\* the implied start is adopted when it is not later than the one held
NotLater(firstStart, newTime) == firstStart >= newTime

\* m_firstPropagationStartingTime > newTime
Earlier(firstStart, newTime) == firstStart > newTime

HandleInterClusterPropagation(w, n, h, u) ==
  LET Adopt(candidateId, newTime) ==
        IF Earlier(w.node[n].firstStart, newTime)
        THEN TransmitPropagationDirection(
               [w EXCEPT !.node[n].firstStart = newTime,
                         !.node[n].firstStartNode = candidateId],
               n, candidateId, h.direction)
        ELSE w
      At(candidateId) ==
        LET candidatePos == IF candidateId = n THEN Pos(n)
                            ELSE w.node[n].clusterList[candidateId].position
        IN Adopt(candidateId,
                 h.startingTime
                   + (CalcPropagationDelay(h.source, candidatePos, h.direction, u) * 13) \div 10)
  IN ReturnAck(At(FindNodeByPosition(w, n, h.destination)), n, h.clusterId,
               "InterClusterPropagation")

\* find(clusterId)->second = true: with no entry under the key the store
\* goes through the end iterator
HandleAck(w, n, h) ==
  LET table == IF h.ackType = "DistroMap" THEN "ackDistroMap" ELSE "ackICP"
  IN IF h.ackType \notin {"DistroMap", "InterClusterPropagation"} THEN w
     ELSE IF h.clusterId \in DOMAIN w.node[n][table]
          THEN [SetF(w, n, table, Upsert(w.node[n][table], h.clusterId, TRUE))
                  EXCEPT !.hist.acked = @ \cup
                    {[frame |-> i, at |-> Len(w.hist.sent)] : i \in
                       {i \in 1..Len(w.hist.sent) :
                          /\ w.hist.sent[i].from = n /\ w.hist.sent[i].to = h.clusterId
                          /\ w.hist.sent[i].packet.type = h.ackType}}]
          ELSE [w EXCEPT !.fault = "ub"]

HandlePacketInterCluster(w, n, h, u) ==
  CASE h.type = "DistroMap" -> HandleDistroMap(w, n, h)
    [] h.type = "InterClusterPropagation" -> HandleInterClusterPropagation(w, n, h, u)
    [] h.type = "Ack" -> HandleAck(w, n, h)
    [] OTHER -> w

\* MetaData::Call: the frame is handed to the agent registered under id
Call(w, id, packet, u) ==
  IF id \in DOMAIN w.node THEN HandlePacketInterCluster(w, id, packet, u) ELSE w

AckValue(w, n, a) ==
  IF a.ack = "distro" THEN w.node[n].ackDistroMap[a.id]
  ELSE w.node[n].ackICP[a.id]

SendTo(w, n, a, u) ==
  LET After(w1) ==
        IF a.ack # "none" /\ ~AckValue(w1, n, a)
        THEN Schedule(w1, MinimumTdmaSlot * RetryFactor, n, "SendTo", a)
        ELSE w1
  IN IF (a.ack = "none" \/ ~AckValue(w, n, a)) /\ a.id \in w.node[n].socket
     THEN After(Call(Transmit(w, [from |-> n, to |-> a.id, packet |-> a.packet]),
                     a.id, a.packet, u))
     ELSE w

\* ------------------------------------------------------------------------
\* The runs
\* ------------------------------------------------------------------------
\* A configuration is what the simulation script sets on the agents before
\* the run: the positions, ClusteringStartTime and ClusteringStopTime (0: not
\* scheduled), SetStartingNode and SetBasePropagationDirection; loss and
\* until bound the run.
Config(pos, start, stop, starting, vec, loss, until) ==
  [pos |-> pos, start |-> start, stop |-> stop, starting |-> starting,
   baseVec |-> [k \in starting |-> vec],
   basePropagationDirection |-> [k \in DOMAIN pos |-> IF k \in starting THEN vec ELSE ZeroVec],
   loss |-> loss, until |-> until]

\* two nodes in range of each other, started together and never stopped
Election ==
  Config(<<<<0, 0>>, <<10, 0>>>>, <<100, 100>>, <<0, 0>>, {}, ZeroVec, MaxLoss, 2700)

\* three nodes in range of each other, started one after the other
Staggered ==
  Config(<<<<0, 0>>, <<10, 0>>, <<20, 0>>>>, <<100, 250, 700>>, <<0, 0, 0>>, {}, ZeroVec,
         MaxLoss, 3000)

\* three nodes in range of each other, started together and never stopped
Together ==
  Config(<<<<0, 0>>, <<10, 0>>, <<20, 0>>>>, <<100, 100, 100>>, <<0, 0, 0>>, {}, ZeroVec,
         MaxLoss, 4000)

\* a line of three nodes, the outer two out of range of each other and both
\* starting nodes; clustering is stopped at 3 s, 3.5 s and 4 s
Wave ==
  Config(<<<<0, 0>>, <<20, 0>>, <<110, 0>>>>, <<100, 100, 100>>, <<3000, 3500, 4000>>, {1, 3},
         Vec(4000, 0), 0, MaxTime)

\* four clusters: the lone heads 2 and 3, both starting nodes, node 4 with
\* its member 1 and node 6 with its member 5.  Node 2 lies 100 m behind node
\* 4 and decides at 4.5 s, node 3 lies 76 m behind node 1 and decides at
\* 5.55 s; node 5 lies ahead of both node 4 and node 1
Relay ==
  Config(<<<<70, 70>>, <<20, 0>>, <<0, 100>>, <<120, 0>>, <<140, 10>>, <<220, 40>>>>,
         <<100, 1500, 1500, 100, 100, 100>>,
         <<3950, 3500, 4550, 3600, 3950, 3600>>, {2, 3}, Vec(1000, 0), 0, 5800)

\* the line of Wave with the middle node configured to stop clustering at
\* 11.5 s, after the wave of node 1 has passed it
Late ==
  Config(<<<<0, 0>>, <<20, 0>>, <<110, 0>>>>, <<100, 100, 100>>, <<3000, 11500, 4000>>, {1, 3},
         Vec(4000, 0), 0, MaxTime)

\* a lone starting node that stops clustering at 1 s, before its first
\* beacon, and 50 m ahead of it a node that has not started clustering when
\* the wave arrives 0.25 s after it set off; one frame may be lost
Missed ==
  Config(<<<<0, 0>>, <<50, 0>>>>, <<100, 9000>>, <<1000, 9500>>, {1}, Vec(20000, 0),
         MaxLoss, 8000)

\* two lone starting nodes that stop clustering before their first beacon;
\* SetBasePropagationDirection was called for node 1 only, so node 2, 50 m
\* ahead of node 1, sets off at 5.9 s with the direction (0, 0)
Undirected ==
  [Config(<<<<0, 0>>, <<50, 0>>>>, <<100, 100>>, <<1000, 900>>, {1, 2}, Vec(20000, 0), 0, 7000)
     EXCEPT !.baseVec = [k \in {1} |-> Vec(20000, 0)],
            !.basePropagationDirection = <<Vec(20000, 0), ZeroVec>>]

\* a single starting node: it elects itself at 1.3 s, stops clustering at
\* 1.5 s and decides at 2.5 s with no neighbour cluster known
Lone ==
  Config(<<<<0, 0>>>>, <<100>>, <<1500>>, {1}, Vec(4000, 0), 0, 3000)

\* the line of Wave with the far node 100 m from the starting node 1: out of
\* its radio range, and with its member inside the 100 m of the solver
Aim ==
  Config(<<<<0, 0>>, <<20, 0>>, <<100, 0>>>>, <<100, 100, 100>>, <<3000, 3500, 4000>>, {1},
         Vec(4000, 0), 0, 4200)

\* two nodes in range of each other, the lower id started first: node 1
\* becomes the head and node 2 its member
Split ==
  Config(<<<<0, 0>>, <<10, 0>>>>, <<100, 400>>, <<0, 0>>, {}, ZeroVec, MaxLoss, 3000)

\* the pair of Missed with no frame lost and the node ahead a starting node
\* too: the wave of node 1 passes it from 6.25 s to 7.75 s, and it stops
\* clustering at 6.5 s
Again ==
  Config(<<<<0, 0>>, <<50, 0>>>>, <<100, 5900>>, <<1000, 6500>>, {1, 2}, Vec(20000, 0), 0, MaxTime)

\* the line of Aim with the member 2 of the far head the only starting node
\* and the wave heading back to the lone head 1, 20 m from node 2
Behind ==
  Config(<<<<0, 0>>, <<20, 0>>, <<100, 0>>>>, <<100, 100, 100>>, <<3000, 3500, 4000>>, {2},
         Vec(0 - 4000, 0), 0, 5200)

Scenarios ==
  {Election, Together, Staggered, Wave, Relay, Late, Missed, Undirected, Lone, Aim, Split,
   Again, Behind}

InitialNode(c, n) ==
  [status |-> CLUSTER_INITIALIZATION, degree |-> STANDALONE, clusterId |-> 0, ts |-> 0,
   isStartingNode |-> n \in c.starting,
   neighborList |-> EmptyMap, clusterList |-> EmptyMap, neighborClusterList |-> EmptyMap,
   socket |-> {}, ackDistroMap |-> EmptyMap, ackICP |-> EmptyMap,
   distroMap |-> EmptyMap, neighborDistroMap |-> EmptyMap,
   firstStartNode |-> 0, firstStart |-> TimeMax, propStart |-> TimeMax,
   propDir |-> ZeroVec, sentCounter |-> 0]

\* DoInitialize of every agent, in the order of the node ids
InitialQueue(c) ==
  LET One(q, n) ==
        LET q1 == IF c.start[n] # 0
                  THEN Insert(q, Event(c.start[n], n, "StartClustering", FALSE, NoArg)) ELSE q
        IN IF c.stop[n] # 0
           THEN Insert(q1, Event(c.stop[n], n, "StopClustering", FALSE, NoArg)) ELSE q1
  IN FoldSeq(One, <<>>, SortedSeq(DOMAIN c.pos))

NoHist ==
  [tx |-> <<>>, sent |-> <<>>, acked |-> {}, rxDistro |-> <<>>, decided |-> {}, ev |-> NoArg,
   heard |-> <<>>, was |-> NoArg, solved |-> {}, intra |-> {}, solver |-> NoArg,
   started |-> {}, stopped |-> {}]

\* the state after construction and DoInitialize under the configuration c
Setup(c) ==
  /\ scen = c
  /\ now = 0
  /\ queue = InitialQueue(c)
  /\ node = [n \in DOMAIN c.pos |-> InitialNode(c, n)]
  /\ meta = [distroMap |-> EmptyMap, chInfo |-> EmptyMap]
  /\ lossLeft = c.loss
  /\ injLeft = MaxInject
  /\ fault = "none"
  /\ hist = NoHist

Init ==
  /\ \E c \in Scenarios : Setup(c)
  /\ kde = [data |-> <<>>, bandwidth |-> <<0, 0, 0, 0>>, estimator |-> [built |-> "no"]]

Current == queue[1]

\* the scheduler takes the next event off the queue
Runs(kind) ==
  /\ fault # "aborted"
  /\ queue # <<>>
  /\ Current.kind = kind
  /\ Current.t <= scen.until
  /\ Current.t <= MaxTime

Popped ==
  [now |-> Current.t, queue |-> Tail(queue), node |-> node, meta |-> meta, fault |-> fault,
   hist |-> [hist EXCEPT !.tx = <<>>, !.ev = [type |-> Current.kind, node |-> Current.node],
                         !.heard = <<>>, !.was = NoArg, !.solver = NoArg]]

Here(ev) ==
  [now |-> now, queue |-> queue, node |-> node, meta |-> meta, fault |-> fault,
   hist |-> [hist EXCEPT !.tx = <<>>, !.ev = ev, !.heard = <<>>, !.was = NoArg,
                         !.solver = NoArg]]

\* the handler has returned; an undefined store either went unnoticed or
\* killed the process
Commit(w) ==
  /\ now' = w.now
  /\ node' = w.node
  /\ meta' = w.meta
  /\ hist' = w.hist
  /\ UNCHANGED <<scen, kde>>
  /\ IF w.fault = "ub" /\ fault # "ub"
     THEN \/ fault' = "ub" /\ queue' = w.queue
          \/ fault' = "aborted" /\ queue' = <<>>
     ELSE fault' = w.fault /\ queue' = w.queue

UbTimes == {0 - TimeMax, 0, TimeMax}

FireStartClustering ==
  /\ Runs("StartClustering")
  /\ Commit(StartClustering(Popped, Current.node))
  /\ UNCHANGED <<lossLeft, injLeft>>

FireStopClustering ==
  /\ Runs("StopClustering")
  /\ Commit(StopClustering([Popped EXCEPT !.hist.stopped = @ \cup {Current.node}],
                           Current.node))
  /\ UNCHANGED <<lossLeft, injLeft>>

FireSend ==
  /\ Runs("Send")
  /\ Commit(Send(Popped, Current.node))
  /\ UNCHANGED <<lossLeft, injLeft>>

FireInitiateCluster ==
  /\ Runs("InitiateCluster")
  /\ Commit(InitiateCluster(Popped, Current.node))
  /\ UNCHANGED <<lossLeft, injLeft>>

FireUpdateNeighbors ==
  /\ Runs("UpdateNeighbors")
  /\ Commit(UpdateNeighbors(Popped, Current.node))
  /\ UNCHANGED <<lossLeft, injLeft>>

\* an entry whose age is exactly 2 * Interval
OnTheEdge(n, t) ==
  \/ \E k \in DOMAIN node[n].neighborList : t - node[n].neighborList[k].ts = 2 * Interval
  \/ \E k \in DOMAIN node[n].neighborClusterList :
       t - node[n].neighborClusterList[k].ts = 2 * Interval

FireUpdateNeighborList ==
  /\ Runs("UpdateNeighborList")
  /\ \E tie \in BOOLEAN :
       /\ tie => OnTheEdge(Current.node, Current.t)
       /\ Commit(UpdateNeighborList(Popped, Current.node, tie))
  /\ UNCHANGED <<lossLeft, injLeft>>

FireDecidePropagationParam ==
  /\ Runs("DecidePropagationParam")
  /\ Commit(DecidePropagationParam([Popped EXCEPT !.hist.decided = @ \cup {Current.node}],
                                   Current.node))
  /\ UNCHANGED <<lossLeft, injLeft>>

FireStartNodePropagation ==
  /\ Runs("StartNodePropagation")
  /\ Commit(StartNodePropagation([Popped EXCEPT !.hist.started = @ \cup {Current.node}],
                                 Current.node))
  /\ UNCHANGED <<lossLeft, injLeft>>

FireStopNodePropagation ==
  /\ Runs("StopNodePropagation")
  /\ Commit(StopNodePropagation(Popped, Current.node))
  /\ UNCHANGED <<lossLeft, injLeft>>

FireSendTo ==
  /\ Runs("SendTo")
  /\ \E u \in UbTimes : Commit(SendTo(Popped, Current.node, Current.arg, u))
  /\ UNCHANGED <<lossLeft, injLeft>>

\* the listening socket hands a broadcast frame to HandleRead
Receive ==
  /\ Runs("Rx")
  /\ \E u \in UbTimes :
       Commit(HandleRead([Popped EXCEPT !.hist.heard = Current.arg.headers,
                                        !.hist.was = [status |-> node[Current.node].status,
                                                      degree |-> node[Current.node].degree]],
                         Current.node, Current.arg.headers, u))
  /\ UNCHANGED <<lossLeft, injLeft>>

\* the frame does not reach this receiver
LoseMessage ==
  /\ Runs("Rx")
  /\ lossLeft > 0
  /\ lossLeft' = lossLeft - 1
  /\ Commit([Popped EXCEPT !.hist.ev = [type |-> "Lost", node |-> Current.node]])
  /\ UNCHANGED injLeft

\* the DistroMap frame ExchangeDistroMap of the CH k builds
DistroMapFrame(k) ==
  [type |-> "DistroMap", seq |-> node[k].sentCounter - 1, clusterId |-> k,
   info |-> [imsi |-> k, clusterId |-> node[k].clusterId,
             degree |-> node[k].degree, ts |-> node[k].ts,
             position |-> Pos(k),
             isStartingNode |-> node[k].isStartingNode],
   map |-> node[k].distroMap]

\* HandleReadInterCluster: a DistroMap frame, as ExchangeDistroMap of the CH k
\* builds it for its peer r, arrives on r's inter-CH port
ReceiveDistroMap ==
  /\ fault # "aborted"
  /\ injLeft > 0
  /\ \E k \in Nodes : \E r \in node[k].socket \cap Nodes :
       /\ r # k
       /\ node[k].degree = CH
       /\ node[k].status = EXCHANGE_DISTRO_MAP
       /\ Commit(HandlePacketInterCluster(
                   Here([type |-> "HandleReadInterCluster", node |-> r]), r,
                   DistroMapFrame(k), 0))
  /\ injLeft' = injLeft - 1
  /\ UNCHANGED lossLeft

Next ==
  \/ FireStartClustering
  \/ FireStopClustering
  \/ FireSend
  \/ FireInitiateCluster
  \/ FireUpdateNeighbors
  \/ FireUpdateNeighborList
  \/ FireDecidePropagationParam
  \/ FireStartNodePropagation
  \/ FireStopNodePropagation
  \/ FireSendTo
  \/ Receive
  \/ LoseMessage
  \/ ReceiveDistroMap

Spec == Init /\ [][Next]_vars

\* ------------------------------------------------------------------------
\* The construction of a Kde2d, on its own
\* ------------------------------------------------------------------------
KdePoints == {<<0, 0>>, <<1, 0>>}
KdeEntries == (0 - MaxEntry)..MaxEntry

SeqsUpTo(S, k) == UNION {[1..m -> S] : m \in 0..k}

KdeInit ==
  /\ Setup(Lone)
  /\ \E data \in SeqsUpTo(KdePoints, MaxSamples) :
       \E h \in [1..4 -> KdeEntries] :
         kde = [data |-> data, bandwidth |-> h, estimator |-> [built |-> "no"]]

Construct ==
  /\ kde.estimator.built = "no"
  /\ kde' = [kde EXCEPT !.estimator = Kde2d(kde.data, kde.bandwidth)]
  /\ UNCHANGED <<scen, now, queue, node, meta, lossLeft, injLeft, fault, hist>>

KdeNext == Construct

KdeSpec == KdeInit /\ [][KdeNext]_vars

\* ------------------------------------------------------------------------
\* Properties
\* ------------------------------------------------------------------------
\* node n has just run its aging tick
AfterTick(n) == hist.ev.type = "UpdateNeighborList" /\ hist.ev.node = n

FollowsHead(n) ==
  /\ node[n].clusterId \in DOMAIN node[n].neighborList
  /\ node[n].neighborList[node[n].clusterId].degree = CH

\* C1: in every reachable state a node of degree CM has a clusterId that is a
\* key of its own NeighborList, and the entry under that key has degree CH.
C1_MemberFollowsHead ==
  \A n \in Nodes : node[n].degree = CM => FollowsHead(n)

\* C1, amended: whenever a node's aging tick (UpdateNeighborList) has just
\* returned and the node has degree CM, its clusterId is a key of its own
\* NeighborList and the entry under that key has degree CH.
C1_MemberFollowsHeadAfterTick ==
  \A n \in Nodes : AfterTick(n) /\ node[n].degree = CM => FollowsHead(n)

\* a member has just run its aging tick and kept its head
C1_Witness ==
  \E n \in Nodes : AfterTick(n) /\ node[n].degree = CM /\ FollowsHead(n)

\* C2: in every reachable state of every node, a non-empty ClusterList
\* implies degree CH, and every ClusterList entry records clusterId equal to
\* the node's own id.
C2_MembersOnlyAtHead ==
  \A n \in Nodes :
    node[n].clusterList # EmptyMap =>
      /\ node[n].degree = CH
      /\ \A k \in DOMAIN node[n].clusterList : node[n].clusterList[k].clusterId = n

InRangeOfEachOther(c) ==
  \A a, b \in DOMAIN c.pos : ~OutOfRange(c.pos[a], c.pos[b])

StartTogether(c) ==
  /\ \A a, b \in DOMAIN c.pos : c.start[a] = c.start[b]
  /\ \A a \in DOMAIN c.pos : c.stop[a] = 0

\* the first beacons, the election poll, the InitiateCluster frame and the
\* first beacon of every member have been delivered
SettleTime(c) == c.start[1] + 2 * TimeWindow + 2 * TdmaWindow + 2 * DeliveryDelay

Highest == CHOOSE m \in Nodes : \A k \in Nodes : k <= m

Elected ==
  /\ node[Highest].degree = CH
  /\ node[Highest].clusterId = Highest
  /\ \A n \in Nodes \ {Highest} : node[n].degree = CM /\ node[n].clusterId = Highest
  /\ DOMAIN node[Highest].clusterList = Nodes \ {Highest}

Undisturbed ==
  /\ InRangeOfEachOther(scen)
  /\ StartTogether(scen)
  /\ lossLeft = scen.loss

\* C3: static nodes that are pairwise within OMNI_RANGE, start clustering
\* together and have lost no message are, once SettleTime has passed, in the state
\* where the node with the highest id is CH of its own cluster, every other
\* node is CM of that cluster, and the CH's ClusterList holds all the others.
C3_HighestIdElected ==
  Undisturbed /\ now > SettleTime(scen) => Elected

\* three such nodes have settled
C3_Witness ==
  /\ Undisturbed
  /\ now > SettleTime(scen)
  /\ Cardinality(Nodes) = 3
  /\ Elected

\* C4: no two distinct nodes of degree CH name each other as their cluster.
C4_NoMutualHeads ==
  \A c1, c2 \in Nodes :
    c1 # c2 /\ node[c1].degree = CH /\ node[c2].degree = CH =>
      ~(node[c1].clusterId = c2 /\ node[c2].clusterId = c1)

\* two heads that hold each other in their NeighborList as a CH, one of them
\* without members
C4_Witness ==
  \E c1, c2 \in Nodes :
    /\ c1 # c2
    /\ node[c1].degree = CH /\ node[c2].degree = CH
    /\ node[c1].clusterList = EmptyMap
    /\ c2 \in DOMAIN node[c1].neighborList /\ node[c1].neighborList[c2].degree = CH
    /\ c1 \in DOMAIN node[c2].neighborList /\ node[c2].neighborList[c1].degree = CH

Fresh(table) == \A k \in DOMAIN table : now - table[k].ts <= 2 * Interval

\* C5: in every reachable state every entry of a node's NeighborList,
\* ClusterList and NeighborClusterList is at most 2 * Interval old.
C5_NoStaleEntry ==
  \A n \in Nodes :
    /\ Fresh(node[n].neighborList)
    /\ Fresh(node[n].clusterList)
    /\ Fresh(node[n].neighborClusterList)

\* C5, amended: whenever a node's aging tick (UpdateNeighborList) has just
\* returned, every entry of its NeighborList and of its NeighborClusterList
\* is at most 2 * Interval old.
C5_NoStaleEntryAfterTick ==
  \A n \in Nodes :
    AfterTick(n) => Fresh(node[n].neighborList) /\ Fresh(node[n].neighborClusterList)

\* a tick has just evicted nothing from two non-empty tables
C5_Witness ==
  \E n \in Nodes :
    /\ AfterTick(n)
    /\ node[n].neighborList # EmptyMap
    /\ node[n].neighborClusterList # EmptyMap
    /\ \E k \in DOMAIN node[n].neighborList : now - node[n].neighborList[k].ts >= Interval

\* C6: once firstPropagationStartingTime is set, every later assignment to
\* it before the node enters PROPAGATION_RUNNING gives a value less than or
\* equal to the previous one.
C6_StartTimeNeverGrows ==
  [][\A n \in Nodes :
       /\ node[n].firstStart # TimeMax
       /\ node[n].status \notin {PROPAGATION_RUNNING, PROPAGATION_COMPLETE}
       => node'[n].firstStart <= node[n].firstStart]_vars

DistroMapSent(n, p) ==
  \E i \in 1..Len(hist.sent) :
    /\ hist.sent[i].from = n
    /\ hist.sent[i].to = p
    /\ hist.sent[i].packet.type = "DistroMap"

\* C7: after StopClustering at a CH a DistroMap frame is transmitted to every
\* peer of its NeighborClusterList (and retried until acknowledged or until
\* the CH leaves EXCHANGE_DISTRO_MAP): a CH that has left EXCHANGE_DISTRO_MAP
\* through DecidePropagationParam has transmitted one to every peer it opened
\* a channel to.
C7_DistroMapTransmitted ==
  \A n \in hist.decided : \A p \in node[n].socket : DistroMapSent(n, p)

Count(seq, Test(_)) == Cardinality({i \in 1..Len(seq) : Test(seq[i])})

\* C8: for every DistroMap frame a node receives exactly one Ack with the
\* DistroMap type tag is transmitted back to the sending cluster, whether or
\* not the receiver holds an inter-CH channel for the sender: once the
\* scheduled replies have run, a node has transmitted as many such Acks to a
\* cluster as it has received DistroMap frames from it.
C8_EveryDistroMapAcked ==
  \A r, k \in Nodes :
    LET Received(e) == e.at = r /\ e.from = k
        Acked(f) == /\ f.from = r /\ f.to = k
                    /\ f.packet.type = "Ack" /\ f.packet.ackType = "DistroMap"
        Waiting(e) == /\ e.kind = "SendTo" /\ e.node = r /\ e.arg.id = k
                      /\ e.arg.packet.type = "Ack"
    IN Count(hist.rxDistro, Received) = Count(hist.sent, Acked) + Count(queue, Waiting)

\* C9: once the Ack for a reliably delivered frame (DistroMap or
\* InterClusterPropagation) sent to a peer has been processed and the
\* AckTable entry of the peer is true, that frame is never transmitted to the
\* peer again: no frame transmitted after the Ack was processed equals a
\* frame the Ack covered.
C9_AckedFrameNotResent ==
  \A a \in hist.acked :
    \A j \in (a.at + 1)..Len(hist.sent) : hist.sent[j] # hist.sent[a.frame]

\* C10: once a CH has entered DECIDE_PROPAGATION_PARAM every entry of its
\* density AckTable is true and it transmits no DistroMap frame any more.
C10_ExchangeClosed ==
  \A n \in hist.decided :
    /\ \A p \in DOMAIN node[n].ackDistroMap : node[n].ackDistroMap[p]
    /\ \A i \in 1..Len(hist.tx) :
         hist.tx[i].from = n /\ hist.tx[i].to # 0 => hist.tx[i].packet.type # "DistroMap"

\* a CH with a peer in its density AckTable has decided
C10_Witness ==
  \E n \in hist.decided :
    /\ node[n].degree = CH
    /\ node[n].ackDistroMap # EmptyMap
    /\ \A p \in DOMAIN node[n].ackDistroMap : node[n].ackDistroMap[p]

\* the DistroMap frame a node has just received on its inter-CH port
JustReceived == hist.rxDistro[Len(hist.rxDistro)]

\* C11: receiving the same DistroMap frame from cluster k twice leaves the
\* receiver's NeighborDistroMap and NeighborClusterList exactly as after
\* receiving it once: handing the frame that has just been received to the
\* receiver again changes neither table.
C11_DuplicateDistroMap ==
  hist.ev.type = "HandleReadInterCluster" =>
    LET r == JustReceived.at
        again == HandleDistroMap(Here(hist.ev), r, JustReceived.frame)
    IN /\ again.node[r].neighborDistroMap = node[r].neighborDistroMap
       /\ again.node[r].neighborClusterList = node[r].neighborClusterList

C11_Witness ==
  /\ hist.ev.type = "HandleReadInterCluster"
  /\ Cardinality(DOMAIN JustReceived.frame.map) > 1
  /\ node[JustReceived.at].neighborDistroMap[JustReceived.from] = JustReceived.frame.map
  /\ node[JustReceived.at].neighborClusterList[JustReceived.from] = JustReceived.frame.info

\* this step hands the InterClusterPropagation frame at the head of the
\* queue to the node p
Delivers(p) ==
  /\ queue # <<>>
  /\ Current.kind = "SendTo"
  /\ Current.arg.packet.type = "InterClusterPropagation"
  /\ Current.arg.id = p
  /\ hist'.ev = [type |-> "SendTo", node |-> Current.node]
  /\ hist'.tx # <<>>
  /\ fault' # "aborted"

\* the events of node p that send something other than an Ack
ScheduledSends(q, p) ==
  LET Sends(e) == /\ e.node = p
                  /\ \/ e.kind = "Send"
                     \/ e.kind = "SendTo" /\ e.arg.packet.type # "Ack"
  IN SelectSeq(q, Sends)

\* the node of p's cluster the frame h is aimed at, and the start time the
\* frame implies for it
AimedAt(p, h) == FindNodeByPosition(Here(hist.ev), p, h.destination)

ImpliedStart(p, h, u) ==
  LET candidatePos == IF AimedAt(p, h) = p THEN Pos(p)
                      ELSE node[p].clusterList[AimedAt(p, h)].position
  IN h.startingTime
       + (CalcPropagationDelay(h.source, candidatePos, h.direction, u) * 13) \div 10

\* C12: an inbound InterClusterPropagation frame whose implied start
\* (startingTime + 1.3 * delay) is strictly earlier than the receiver's
\* firstPropagationStartingTime is adopted and the solver is re-run; a frame
\* whose implied start is equal to or later than it is ignored: the first
\* start time, the first start node, the propagation direction, the status
\* and the scheduled sends of the receiver are unchanged.
C12_OnlyEarlierStartAdopted ==
  [][\A p \in Nodes \ {Current.node} :
       Delivers(p) =>
         \E u \in UbTimes :
           IF ImpliedStart(p, Current.arg.packet, u) < node[p].firstStart
           THEN /\ node'[p].firstStart = ImpliedStart(p, Current.arg.packet, u)
                /\ node'[p].firstStartNode = AimedAt(p, Current.arg.packet)
                /\ AimedAt(p, Current.arg.packet) = p => node'[p].status = PROPAGATION_READY
           ELSE /\ node'[p].firstStart = node[p].firstStart
                /\ node'[p].firstStartNode = node[p].firstStartNode
                /\ node'[p].propDir = node[p].propDir
                /\ node'[p].status = node[p].status
                /\ ScheduledSends(queue', p) = ScheduledSends(Tail(queue), p)]_vars

\* a frame has just been handed a second time to a node that holds the start
\* time the frame implies
C12_Witness ==
  /\ hist.ev.type = "SendTo"
  /\ \E i \in 1..Len(hist.tx) :
       /\ hist.tx[i].to \in Nodes
       /\ hist.tx[i].packet.type = "InterClusterPropagation"
       /\ Cardinality({j \in 1..Len(hist.sent) : hist.sent[j] = hist.tx[i]}) > 1
       /\ node[hist.tx[i].to].firstStart = ImpliedStart(hist.tx[i].to, hist.tx[i].packet, 0)

\* this step hands a frame made of one ClusterInfo, InitiateCluster or
\* FormCluster header, sent from out of range, to HandleRead of node n
HearsFromOutOfRange(n) ==
  /\ queue # <<>>
  /\ Current.kind = "Rx"
  /\ Current.node = n
  /\ hist'.ev = [type |-> "Rx", node |-> n]
  /\ Len(Current.arg.headers) = 1
  /\ Current.arg.headers[1].type \in {"ClusterInfo", "InitiateCluster", "FormCluster"}
  /\ OutOfRange(Pos(n), Current.arg.headers[1].info.position)

\* C13: an inbound ClusterInfo, InitiateCluster or FormCluster whose
\* advertised position is at distance >= OMNI_RANGE from the receiver
\* changes none of the receiver's NeighborList, ClusterList,
\* NeighborClusterList, status, degree or clusterId, whatever the receiver's
\* current status.
C13_OutOfRangeDropped ==
  [][\A n \in Nodes :
       HearsFromOutOfRange(n) =>
         /\ node'[n].neighborList = node[n].neighborList
         /\ node'[n].clusterList = node[n].clusterList
         /\ node'[n].neighborClusterList = node[n].neighborClusterList
         /\ node'[n].status = node[n].status
         /\ node'[n].degree = node[n].degree
         /\ node'[n].clusterId = node[n].clusterId]_vars

\* this step is the aging tick of node n
Ticks(n) ==
  /\ queue # <<>>
  /\ Current.kind = "UpdateNeighborList"
  /\ Current.node = n
  /\ hist'.ev = [type |-> "UpdateNeighborList", node |-> n]

\* the tick finds that the member n has lost its head: the head's entry is
\* older than 2 * Interval, or no entry is the head of n's cluster
FindsHeadLost(n) ==
  LET nl == node[n].neighborList
  IN /\ node[n].degree = CM
     /\ \/ \E k \in DOMAIN nl : /\ nl[k].imsi = node[n].clusterId
                                /\ Current.t - nl[k].ts > 2 * Interval
        \/ ~\E k \in DOMAIN nl : /\ nl[k].imsi = node[n].clusterId
                                 /\ nl[k].clusterId = node[n].clusterId
                                 /\ nl[k].degree = CH

\* C14: whenever a table-aging tick finds that a CM has lost its CH (the
\* CH's NeighborList entry is evicted for age, or no NeighborList entry is
\* the CH of the node's cluster), the node ends that tick with degree
\* STANDALONE and status CLUSTER_INITIALIZATION.
C14_LostHeadDemotes ==
  [][\A n \in Nodes :
       Ticks(n) /\ FindsHeadLost(n) =>
         /\ node'[n].degree = STANDALONE
         /\ node'[n].status = CLUSTER_INITIALIZATION]_vars

\* C15: at every table-aging tick, a node whose NeighborList is empty and
\* whose degree is not CH is promoted to CH with clusterId equal to its own
\* id, including a node whose NeighborList was already empty before the tick.
C15_EmptyListPromotes ==
  [][\A n \in Nodes :
       Ticks(n) /\ node[n].degree # CH /\ node'[n].neighborList = EmptyMap =>
         /\ node'[n].degree = CH
         /\ node'[n].clusterId = n]_vars

\* this step hands a frame with a ClusterInfo header to node n, which is in
\* CLUSTER_UPDATE or CLUSTER_HEAD_ELECTION and is STANDALONE or a CH without
\* members, and n leaves the callback as a CM: the merge check has acted
MergeCheckJoins(n) ==
  /\ queue # <<>>
  /\ Current.kind = "Rx"
  /\ Current.node = n
  /\ hist'.ev = [type |-> "Rx", node |-> n]
  /\ \E i \in 1..Len(Current.arg.headers) : Current.arg.headers[i].type = "ClusterInfo"
  /\ node[n].status \in {CLUSTER_UPDATE, CLUSTER_HEAD_ELECTION}
  /\ \/ node[n].degree = STANDALONE
     \/ node[n].degree = CH /\ node[n].clusterList = EmptyMap
  /\ node'[n].degree = CM

\* the ids of the CHs in the NeighborList of n
KnownHeads(nl) == {k \in DOMAIN nl : nl[k].degree = CH}

\* C16: whenever the merge check turns a STANDALONE node or a CH with empty
\* ClusterList into a CM, the cluster it joins is the highest-id CH present
\* in its NeighborList and that CH's id is strictly greater than the node's
\* own id.
C16_MergeOnlyUpwards ==
  [][\A n \in Nodes :
       MergeCheckJoins(n) =>
         /\ node'[n].clusterId \in KnownHeads(node'[n].neighborList)
         /\ \A k \in KnownHeads(node'[n].neighborList) : k <= node'[n].clusterId
         /\ node'[n].clusterId > n]_vars

\* this step hands a frame with a ClusterInfo header to the STANDALONE node
\* n in CLUSTER_UPDATE or CLUSTER_HEAD_ELECTION, and n leaves the callback
\* as a CH
PromotesOnBeacon(n) ==
  /\ queue # <<>>
  /\ Current.kind = "Rx"
  /\ Current.node = n
  /\ hist'.ev = [type |-> "Rx", node |-> n]
  /\ \E i \in 1..Len(Current.arg.headers) : Current.arg.headers[i].type = "ClusterInfo"
  /\ node[n].status \in {CLUSTER_UPDATE, CLUSTER_HEAD_ELECTION}
  /\ node[n].degree = STANDALONE
  /\ node'[n].degree = CH

\* C17: a STANDALONE node that processes a ClusterInfo in CLUSTER_UPDATE or
\* CLUSTER_HEAD_ELECTION promotes itself to CH only if no CH is present in
\* its NeighborList and its own id is the maximum among itself and its
\* non-CM neighbors.
C17_PromotionNeedsMaxId ==
  [][\A n \in Nodes :
       PromotesOnBeacon(n) =>
         /\ KnownHeads(node'[n].neighborList) = {}
         /\ \A k \in DOMAIN node'[n].neighborList :
              node'[n].neighborList[k].degree # CM => k <= n]_vars

\* this step hands the InitiateCluster header h to node n in
\* CLUSTER_INITIALIZATION, and n leaves the callback as a CM of the sender's
\* cluster in CLUSTER_UPDATE
JoinsOnInitiate(n, h) ==
  /\ queue # <<>>
  /\ Current.kind = "Rx"
  /\ Current.node = n
  /\ hist'.ev = [type |-> "Rx", node |-> n]
  /\ Current.arg.headers = <<h>>
  /\ h.type = "InitiateCluster"
  /\ node[n].status = CLUSTER_INITIALIZATION
  /\ node'[n].status = CLUSTER_UPDATE
  /\ node'[n].degree = CM
  /\ node'[n].clusterId = h.info.clusterId

\* C18: a node in CLUSTER_INITIALIZATION becomes CM (status CLUSTER_UPDATE,
\* clusterId = sender's cluster) in response to an InitiateCluster frame only
\* if the sender's id is greater than its own id and the sender is within
\* OMNI_RANGE.
C18_JoinOnlyHigherInRange ==
  [][\A n \in Nodes :
       queue # <<>> /\ Current.kind = "Rx" /\ Len(Current.arg.headers) = 1
         /\ JoinsOnInitiate(n, Current.arg.headers[1]) =>
           /\ Current.arg.headers[1].info.imsi > n
           /\ ~OutOfRange(Pos(n), Current.arg.headers[1].info.position)]_vars

\* this step hands a frame whose ClusterInfo header h comes from a CH in
\* range to the STANDALONE node n in CLUSTER_INITIALIZATION
HearsHead(n, h) ==
  /\ queue # <<>>
  /\ Current.kind = "Rx"
  /\ Current.node = n
  /\ hist'.ev = [type |-> "Rx", node |-> n]
  /\ \E i \in 1..Len(Current.arg.headers) : Current.arg.headers[i] = h
  /\ h.type = "ClusterInfo"
  /\ h.info.degree = CH
  /\ ~OutOfRange(Pos(n), h.info.position)
  /\ node[n].status = CLUSTER_INITIALIZATION
  /\ node[n].degree = STANDALONE

\* the headers of the frame at the head of the queue
HeadersAtHand ==
  IF queue # <<>> /\ Current.kind = "Rx"
  THEN {Current.arg.headers[i] : i \in 1..Len(Current.arg.headers)} ELSE {}

C20_CompleteIsTerminal ==
  [][\A n \in Nodes :
       node[n].status = PROPAGATION_COMPLETE => node'[n].status = PROPAGATION_COMPLETE]_vars


\* the InterNodePropagation frames node n broadcasts in the step just taken
WaveFrames(tx, n) ==
  {i \in 1..Len(tx) :
     /\ tx[i].from = n /\ tx[i].to = 0
     /\ \E j \in 1..Len(tx[i].headers) : tx[i].headers[j].type = "InterNodePropagation"}

\* C21: a node broadcasts exactly one InterNodePropagation frame between
\* entering PROPAGATION_RUNNING and entering PROPAGATION_COMPLETE: one in the
\* step that enters PROPAGATION_RUNNING and none in a later step taken while
\* it is running.
C21_OneWaveFrame ==
  [][\A n \in Nodes :
       /\ node[n].status # PROPAGATION_RUNNING /\ node'[n].status = PROPAGATION_RUNNING
          => Cardinality(WaveFrames(hist'.tx, n)) = 1
       /\ node[n].status = PROPAGATION_RUNNING
          => WaveFrames(hist'.tx, n) = {}]_vars


\* C22: every node that enters PROPAGATION_READY eventually enters
\* PROPAGATION_RUNNING: whenever a node's status is PROPAGATION_READY, a
\* StartNodePropagation event is pending for it.
C22_ReadyHasStartPending ==
  \A n \in Nodes :
    node[n].status = PROPAGATION_READY =>
      \E i \in 1..Len(queue) :
        queue[i].node = n /\ queue[i].kind = "StartNodePropagation"


\* node n is being handed a frame that holds an InterNodePropagation header
\* and no other
HearsWave(n) ==
  /\ Runs("Rx")
  /\ Current.node = n
  /\ hist'.ev = [type |-> "Rx", node |-> n]
  /\ Len(Current.arg.headers) = 1
  /\ Current.arg.headers[1].type = "InterNodePropagation"

StartEvents(q, n) ==
  SelectSeq(q, LAMBDA e : e.node = n /\ e.kind = "StartNodePropagation")

\* C23: an InterNodePropagation frame the receiver does not adopt leaves its
\* propagationStartTime, propagationDirection, status and pending start
\* event unchanged; an adopted frame only ever lowers propagationStartTime.
C23_RejectedWaveFrame ==
  [][\A n \in Nodes :
       HearsWave(n) =>
         IF node'[n].propStart = node[n].propStart
         THEN /\ node'[n].propDir = node[n].propDir
              /\ node'[n].status = node[n].status
              /\ StartEvents(queue', n) = StartEvents(Tail(queue), n)
         ELSE node'[n].propStart < node[n].propStart]_vars


\* C24: at every node and in every reachable state at most one
\* StartNodePropagation event is pending.
C24_OneStartPending ==
  \A n \in Nodes : Len(StartEvents(queue, n)) <= 1

\* a member that was PROPAGATION_READY, its start still ahead, has just been
\* named the starting node by another IntraClusterPropagation frame of its
\* head and holds one start event, at its propagationStartTime
C24_Witness ==
  /\ hist.ev.type = "Rx"
  /\ hist.was.status = PROPAGATION_READY
  /\ \E i \in 1..Len(hist.heard) :
       /\ hist.heard[i].type = "IntraClusterPropagation"
       /\ hist.heard[i].startingNode = hist.ev.node
       /\ hist.heard[i].clusterId = node[hist.ev.node].clusterId
       /\ hist.heard[i].startingTime = node[hist.ev.node].propStart
  /\ node[hist.ev.node].degree = CM
  /\ node[hist.ev.node].status = PROPAGATION_READY
  /\ node[hist.ev.node].propStart > now
  /\ Len(StartEvents(queue, hist.ev.node)) = 1
  /\ StartEvents(queue, hist.ev.node)[1].t = node[hist.ev.node].propStart

\* a head that ran the solver with a non-empty ClusterList and has not
\* broadcast an IntraClusterPropagation frame since
OwesAnnouncement(n) == n \in hist.solved /\ n \notin hist.intra

\* C25: whenever the solver runs at a CH whose ClusterList is non-empty, the
\* CH subsequently broadcasts at least one IntraClusterPropagation frame to
\* its members, also when the CH itself is the starting node of the wave:
\* the simulation never runs out of events while a head still owes the
\* frame.
C25_SolverAnnounces ==
  fault # "aborted" => \A n \in Nodes : OwesAnnouncement(n) => queue # <<>>

\* C26: a solver run (TransmitPropagationDirection) that targets no
\* neighbour cluster leaves the node's local propagationDirection
\* unchanged.
C26_NoTargetKeepsDirection ==
  [][\A n \in Nodes :
       /\ hist'.solver.type = "solver"
       /\ hist'.solver.node = n
       /\ hist'.solver.targeted = 0
       /\ hist'.ev.node = n
       /\ Current.node = n
       => node'[n].propDir = node[n].propDir]_vars

Constructed == kde.estimator.built # "no"

\* C27: constructing the 2-D KDE fails with an error, producing no
\* estimator, exactly when it is given fewer than 2 samples or a bandwidth
\* matrix H whose determinant is zero.
C27_KdeFailsIffSingular ==
  Constructed =>
    (kde.estimator.built # "yes"
       <=> (Len(kde.data) < 2 \/ Determinant(kde.bandwidth) = 0))

\* C27, amended: the construction fails exactly when it is given fewer than
\* 2 samples or a bandwidth matrix H whose determinant is zero or negative.
C27_KdeFailsIffNotPositive ==
  Constructed =>
    (kde.estimator.built # "yes"
       <=> (Len(kde.data) < 2 \/ Determinant(kde.bandwidth) <= 0))

\* a construction from two samples and a matrix of negative determinant has
\* failed
C27_Witness ==
  /\ Constructed
  /\ Len(kde.data) >= 2
  /\ Determinant(kde.bandwidth) < 0
  /\ kde.estimator.built = "runtime_error"


\* the place of a status in the nine-state order
Rank(status) ==
  CASE status = CLUSTER_INITIALIZATION -> 1
    [] status = CLUSTER_HEAD_ELECTION -> 2
    [] status = CLUSTER_FORMATION -> 3
    [] status = CLUSTER_UPDATE -> 4
    [] status = EXCHANGE_DISTRO_MAP -> 5
    [] status = DECIDE_PROPAGATION_PARAM -> 6
    [] status = PROPAGATION_READY -> 7
    [] status = PROPAGATION_RUNNING -> 8
    [] status = PROPAGATION_COMPLETE -> 9

\* C28: from the moment a node enters EXCHANGE_DISTRO_MAP its status only
\* moves forward along the nine-state order; no callback moves it to an
\* earlier state.
C28_StatusOnlyForward ==
  [][\A n \in Nodes :
       Rank(node[n].status) >= Rank(EXCHANGE_DISTRO_MAP)
       => Rank(node'[n].status) >= Rank(node[n].status)]_vars


\* a newer InterClusterPropagation frame of n for the peer p, built by a
\* later solver run with an earlier startingTime than the frame f, is
\* waiting to be sent
Superseded(n, p, f) ==
  \E i \in 1..Len(queue) :
    /\ queue[i].kind = "SendTo" /\ queue[i].node = n
    /\ queue[i].arg.id = p
    /\ queue[i].arg.packet.type = "InterClusterPropagation"
    /\ queue[i].arg.packet.seq > f.seq
    /\ queue[i].arg.packet.startingTime < f.startingTime

\* C29: when the solver is re-run and schedules a new InterClusterPropagation
\* frame for peer p, no copy of the earlier frame for p is transmitted
\* afterwards: no frame is transmitted while a newer one for the same peer
\* is scheduled.
C29_SupersededFrameNotSent ==
  \A i \in 1..Len(hist.tx) :
    hist.tx[i].to # 0 /\ hist.tx[i].packet.type = "InterClusterPropagation"
    => ~Superseded(hist.tx[i].from, hist.tx[i].to, hist.tx[i].packet)


\* the tick of n has just emptied its NeighborList and made it a CH
PromotedByTick(n) ==
  /\ Ticks(n)
  /\ node[n].degree # CH
  /\ node[n].neighborList # EmptyMap
  /\ node'[n].neighborList = EmptyMap
  /\ node'[n].degree = CH

\* C30: when a table-aging tick promotes a node to CH because its
\* NeighborList became empty, a beacon advertising degree CH is broadcast by
\* that node with zero delay, even if a periodic beacon send was already
\* pending: after the tick a Send of the node is due at the time of the
\* tick.
C30_PromotionBeaconsAtOnce ==
  [][\A n \in Nodes :
       PromotedByTick(n) =>
         \E i \in 1..Len(queue') :
           /\ queue'[i].kind = "Send" /\ queue'[i].node = n
           /\ queue'[i].t = now']_vars

\* the InterClusterPropagation frames the solver run of this step has
\* scheduled at node n for its peer key
SolverFrames(q, n, key) ==
  {i \in 1..Len(q) :
     /\ q[i].node = n /\ q[i].kind = "SendTo" /\ q[i].tracked
     /\ q[i].arg.id = key
     /\ q[i].arg.packet.type = "InterClusterPropagation"}

\* the cells of the map of the neighbour key, as positions, that are above
\* 1.0 and lie in the forward sector of the solver run noted in sv
Qualifying(s, key, sv) ==
  {CellPos(c, s.neighborClusterList[key].position) : c \in
     {c \in DOMAIN s.neighborDistroMap[key] :
        /\ s.neighborDistroMap[key][c] > 1000
        /\ IsInSector(sv.from, CellPos(c, s.neighborClusterList[key].position),
                      sv.income, SolverRadius)}}

SqDist(p, q) == Sq(p[1] - q[1]) + Sq(p[2] - q[2])

\* C31: in one solver run, for each neighbour cluster with a known density
\* map at most one InterClusterPropagation frame is scheduled, and its
\* destination is the cell nearest to the starting position among that
\* map's cells whose value is above 1.0 and that lie in the forward sector;
\* a neighbour with no such cell gets no frame.
C31_NearestCellTargeted ==
  [][\A n \in Nodes :
       hist'.solver.type = "solver" /\ hist'.solver.node = n =>
         \A key \in DOMAIN node'[n].neighborDistroMap \cap DOMAIN node'[n].neighborClusterList :
           /\ Cardinality(SolverFrames(queue', n, key)) <= 1
           /\ Qualifying(node'[n], key, hist'.solver) = {}
                => SolverFrames(queue', n, key) = {}
           /\ \A i \in SolverFrames(queue', n, key) :
                /\ queue'[i].arg.packet.destination \in Qualifying(node'[n], key, hist'.solver)
                /\ \A c \in Qualifying(node'[n], key, hist'.solver) :
                     SqDist(queue'[i].arg.packet.destination, hist'.solver.from)
                       <= SqDist(c, hist'.solver.from)]_vars

\* a solver run has just aimed at a neighbour whose map holds two cells in
\* the forward sector
C31_Witness ==
  /\ hist.solver.type = "solver"
  /\ \E key \in DOMAIN node[hist.solver.node].neighborDistroMap
                  \cap DOMAIN node[hist.solver.node].neighborClusterList :
       /\ Cardinality(Qualifying(node[hist.solver.node], key, hist.solver)) >= 2
       /\ SolverFrames(queue, hist.solver.node, key) # {}

\* node n, a CH with at least one member, is being handed a beacon: a frame
\* that holds a ClusterInfo header
HeadHearsBeacon(n) ==
  /\ Runs("Rx")
  /\ Current.node = n
  /\ hist'.ev = [type |-> "Rx", node |-> n]
  /\ \E i \in 1..Len(Current.arg.headers) : Current.arg.headers[i].type = "ClusterInfo"
  /\ node[n].degree = CH
  /\ node[n].clusterList # EmptyMap

\* C32: a CH whose ClusterList is non-empty never changes degree or
\* clusterId through the merge check: while it has at least one member it
\* stays CH of its own cluster whatever beacons it receives.
C32_HeadWithMembersStays ==
  [][\A n \in Nodes :
       HeadHearsBeacon(n) =>
         /\ node'[n].degree = CH
         /\ node'[n].clusterId = node[n].clusterId]_vars

\* a head with a member has just heard, in CLUSTER_UPDATE, the beacon of a
\* node of another cluster while it knows a head of a higher id, and is
\* still the head of its own cluster
C32_Witness ==
  /\ hist.ev.type = "Rx"
  /\ hist.was = [status |-> CLUSTER_UPDATE, degree |-> CH]
  /\ \E i \in 1..Len(hist.heard) :
       /\ hist.heard[i].type = "ClusterInfo"
       /\ hist.heard[i].info.clusterId # hist.ev.node
       /\ ~OutOfRange(Pos(hist.ev.node), hist.heard[i].info.position)
  /\ node[hist.ev.node].clusterList # EmptyMap
  /\ \E k \in DOMAIN node[hist.ev.node].neighborList :
       k > hist.ev.node /\ node[hist.ev.node].neighborList[k].degree = CH
  /\ node[hist.ev.node].degree = CH
  /\ node[hist.ev.node].clusterId = hist.ev.node

\* C33: each node executes StartNodePropagation (enters
\* PROPAGATION_RUNNING) at most once per run: no StartNodePropagation event
\* runs at a node that has executed one before.
C33_StartsOnce ==
  [][\A n \in Nodes :
       /\ Runs("StartNodePropagation")
       /\ Current.node = n
       /\ hist'.ev = [type |-> "StartNodePropagation", node |-> n]
       => n \notin hist.started]_vars

C35_HeadLeadsOwnCluster ==
  \A n \in Nodes : node[n].degree = CH => node[n].clusterId = n

\* a STANDALONE node has just become a head on a beacon, with no head known
\* to it, and names itself as its cluster
C35_Witness ==
  /\ hist.ev.type = "Rx"
  /\ hist.was.degree = STANDALONE
  /\ \E i \in 1..Len(hist.heard) : hist.heard[i].type = "ClusterInfo"
  /\ node[hist.ev.node].degree = CH
  /\ node[hist.ev.node].clusterId = hist.ev.node

C37_UpdateHasSendPending ==
  fault # "aborted" =>
    \A n \in Nodes :
      node[n].status = CLUSTER_UPDATE =>
        \E i \in 1..Len(queue) : queue[i].node = n /\ queue[i].kind = "Send"

\* UpdateNeighbors has just moved a node to CLUSTER_UPDATE and scheduled its
\* beacon one Interval ahead
C37_Witness ==
  /\ hist.ev.type = "UpdateNeighbors"
  /\ node[hist.ev.node].status = CLUSTER_UPDATE
  /\ \E i \in 1..Len(queue) :
       /\ queue[i].node = hist.ev.node /\ queue[i].kind = "Send"
       /\ queue[i].t = now + Interval


\* the map UpdateDistroMap builds from a single sample: the centre cell at
\* 1.0 and every other cell at 0
CentreOnly == [c \in {<<0, 0>>} |-> 1000]

\* the head k has stopped clustering with no member in its ClusterList
HeadAlone(nd, h, k) ==
  /\ k \in Nodes
  /\ k \in h.stopped
  /\ nd[k].degree = CH
  /\ nd[k].clusterList = EmptyMap

\* C38: the density map of a CH with no members has exactly one non-zero
\* cell, the centre cell with value 1.0, and a solver run schedules no
\* InterClusterPropagation frame for a neighbour cluster that consists of a
\* CH alone.
C38_LoneHeadNotTargeted ==
  [][/\ \A n \in Nodes :
          n \in hist'.stopped /\ node'[n].degree = CH /\ node'[n].clusterList = EmptyMap
            => node'[n].distroMap = CentreOnly
     /\ \A n \in Nodes :
          hist'.solver.type = "solver" /\ hist'.solver.node = n =>
            \A key \in DOMAIN node'[n].neighborDistroMap :
              HeadAlone(node', hist', key) => SolverFrames(queue', n, key) = {}]_vars

\* a solver run has just passed over a neighbour cluster that consists of a
\* CH alone, whose centre cell lies in the forward sector
C38_Witness ==
  /\ hist.solver.type = "solver"
  /\ \E key \in DOMAIN node[hist.solver.node].neighborDistroMap
                  \cap DOMAIN node[hist.solver.node].neighborClusterList :
       /\ HeadAlone(node, hist, key)
       /\ node[hist.solver.node].neighborDistroMap[key] = CentreOnly
       /\ IsInSector(hist.solver.from,
                     CellPos(<<0, 0>>, node[hist.solver.node].neighborClusterList[key].position),
                     hist.solver.income, SolverRadius)
       /\ SolverFrames(queue, hist.solver.node, key) = {}


\* the table the Ack frame h is looked up in at node r
AckTable(nd, r, h) ==
  IF h.ackType = "DistroMap" THEN nd[r].ackDistroMap ELSE nd[r].ackICP

\* this step hands the Ack frame h to the node r
ProcessesAck(r, h) ==
  /\ Runs("SendTo")
  /\ hist'.ev = [type |-> "SendTo", node |-> Current.node]
  /\ Current.arg.packet = h
  /\ h.type = "Ack"
  /\ h.ackType \in {"DistroMap", "InterClusterPropagation"}
  /\ Current.arg.id = r
  /\ r \in node[Current.node].socket

\* C39: every Ack frame processed by a node names a peer clusterId for
\* which the corresponding AckTable (density or inter-cluster propagation,
\* by acked type) already holds an entry.
C39_AckFindsEntry ==
  [][\A r \in Nodes :
       queue # <<>> /\ Current.kind = "SendTo" /\ ProcessesAck(r, Current.arg.packet)
         => Current.arg.packet.clusterId \in DOMAIN AckTable(node, r, Current.arg.packet)]_vars

\* an Ack of an InterClusterPropagation frame has just been handed to the
\* head that sent the frame, and the entry of the peer is set
C39_Witness ==
  /\ hist.ev.type = "SendTo"
  /\ fault = "none"
  /\ \E i \in 1..Len(hist.tx) :
       /\ hist.tx[i].to \in Nodes
       /\ hist.tx[i].packet.type = "Ack"
       /\ hist.tx[i].packet.ackType = "InterClusterPropagation"
       /\ hist.tx[i].packet.clusterId \in DOMAIN node[hist.tx[i].to].ackICP
       /\ node[hist.tx[i].to].ackICP[hist.tx[i].packet.clusterId]

====
